---- MODULE Spec2Model ----
(***************************************************************************)
(* Model of the U2020 query service: the telnet session of connector.py,   *)
(* the request handlers of app.py and the response parsers of              *)
(* helper_functions.py.                                                    *)
(*                                                                         *)
(* A response text is a sequence of tokens.  A token is a string: a word,  *)
(* a number, a punctuation mark, a blank " " or the line break "\r\n".     *)
(* Lines, keys and values are token sequences, so that splitlines, strip,  *)
(* split and the three regular expressions are computed, not assumed.      *)
(***************************************************************************)
EXTENDS Integers, Sequences, FiniteSets, TLC

VARIABLES
    ne_dict,        \* the endpoints of the request: ugw_dict or usn_dict
    query,          \* the query command the handler built
    pc,             \* position of the request handler (get_ugw_pdp, get_usn_mm)
    tn,             \* HuaweiMaeClient.tn: "None" or "Telnet"
    sock,           \* the transport behind tn: "none", "open", "closed"
    closes,         \* number of calls of Telnet.close() on the transport
    sent,           \* commands written to the transport, in order
    reads,          \* number of command responses read_until has returned
    idx,            \* position of the loop of query_ne_dict in ne_dict
    response_dict,  \* query_ne_dict's response_dict, as an ordered mapping
    outcome,        \* what reached the caller: "none", "returned", "raised"
    err,            \* the exception in flight, then the one the caller got
    swallowed,      \* an EOFError was caught in connect()
    parser,         \* the parser of the request: "pdp" or "mm"
    text,           \* the response text last given to the parser
    parsed          \* what the parser last returned or raised

vars == <<ne_dict, query, pc, tn, sock, closes, sent, reads, idx, response_dict,
          outcome, err, swallowed, parser, text, parsed>>

sessionVars == <<ne_dict, query, pc, tn, sock, closes, sent, reads, idx,
                 response_dict, outcome, err, swallowed>>

parserVars == <<parser, text, parsed>>

-----------------------------------------------------------------------------
(* Generic helpers *)

Min(S) == CHOOSE x \in S : \A y \in S : x <= y

Max(S) == CHOOSE x \in S : \A y \in S : y <= x

Range(s) == {s[n] : n \in 1..Len(s)}

NL == "\r\n"

IsWS(t) == t = " "

Digits == <<"0", "1", "2", "3", "4", "5", "6", "7", "8", "9">>

\* \d : a decimal digit (numbers are written digit by digit)
IsDigit(t) == t \in Range(Digits)

DigitValue(t) == (CHOOSE n \in 1..10 : Digits[n] = t) - 1

\* int() of a non-empty run of digits
RECURSIVE IntOfDigits(_)
IntOfDigits(s) ==
    IF Len(s) = 1 THEN DigitValue(s[1])
    ELSE 10 * IntOfDigits(SubSeq(s, 1, Len(s) - 1)) + DigitValue(s[Len(s)])

\* First position q >= p of s that holds no digit (Len(s)+1 when none)
SkipDigits(s, p) == Min({q \in p..Len(s) : ~IsDigit(s[q])} \cup {Len(s) + 1})

\* str.lower() of a token (re.IGNORECASE compares case-folded text)
Lower(t) ==
    CASE t = "PDP context on" -> "pdp context on"
      [] t = "SGID" -> "sgid"
      [] t = "ContextIndex" -> "contextindex"
      [] t = "GtpuIndex" -> "gtpuindex"
      [] t = "FilterIndex" -> "filterindex"
      [] t = "SessionIndex" -> "sessionindex"
      [] t = "BearerIndex" -> "bearerindex"
      [] t = "Type" -> "type"
      [] t = "ECGI" -> "ecgi"
      [] t = "TAI" -> "tai"
      [] t = "MCC" -> "mcc"
      [] t = "MNC" -> "mnc"
      [] t = "ECI" -> "eci"
      [] t = "TAC" -> "tac"
      [] t = "APN" -> "apn"
      [] t = "Bearer" -> "bearer"
      [] t = "Overview" -> "overview"
      [] t = "Yes" -> "yes"
      [] OTHER -> t

\* str.lower() of a string
LowerStr(s) == [n \in 1..Len(s) |-> Lower(s[n])]

\* First position q >= p of s that holds no blank (Len(s)+1 when none)
SkipWS(s, p) == Min({q \in p..Len(s) : ~IsWS(s[q])} \cup {Len(s) + 1})

\* First position q >= p of s that holds a blank (Len(s)+1 when none)
SkipNonWS(s, p) == Min({q \in p..Len(s) : IsWS(s[q])} \cup {Len(s) + 1})

\* str.strip()
strip(s) ==
    LET keep == {q \in 1..Len(s) : ~IsWS(s[q])}
    IN  IF keep = {} THEN <<>>
        ELSE SubSeq(s, Min(keep), Max(keep))

\* str.splitlines(): a line break ends a line; no empty line after the last.
\* A text with a line break inside it is the lines before the break nearest
\* its middle followed by the lines after it.
RECURSIVE splitlines(_)
splitlines(t) ==
    LET brk  == {q \in 1..Len(t) - 1 : t[q] = NL}
        late == {q \in brk : 2 * q >= Len(t)}
        cut  == IF late # {} THEN Min(late) ELSE Max(brk)
    IN  IF t = <<>> THEN <<>>
        ELSE IF brk = {}
        THEN <<IF t[Len(t)] = NL THEN SubSeq(t, 1, Len(t) - 1) ELSE t>>
        ELSE splitlines(SubSeq(t, 1, cut)) \o splitlines(SubSeq(t, cut + 1, Len(t)))

-----------------------------------------------------------------------------
(* Regular expressions of helper_functions.py *)

\* RETCODE_RE anchored at position p: RETCODE\s*=\s*(\d+)\s*(.*)
RetcodeAt(s, p) ==
    LET e == SkipWS(s, p + 1)
        d == SkipWS(s, e + 1)
    IN  /\ s[p] = "RETCODE"
        /\ e <= Len(s) /\ s[e] = "="
        /\ d <= Len(s) /\ IsDigit(s[d])

\* RETCODE_RE.search(line): the positions where the pattern matches
RETCODE_RE(s) == {p \in 1..Len(s) : RetcodeAt(s, p)}

\* RESULT_COUNT_RE anchored at p: \(Number of results\s*=\s*\d+\)
ResultCountAt(s, p) ==
    LET e == SkipWS(s, p + 1)
        d == SkipWS(s, e + 1)
    IN  /\ s[p] = "(Number of results"
        /\ e <= Len(s) /\ s[e] = "="
        /\ d <= Len(s) /\ IsDigit(s[d])
        /\ SkipDigits(s, d) <= Len(s) /\ s[SkipDigits(s, d)] = ")"

\* RESULT_COUNT_RE.search(line)
RESULT_COUNT_RE(s) == \E p \in 1..Len(s) : ResultCountAt(s, p)

HeaderKeywords ==
    <<"sgid", "contextindex", "gtpuindex", "filterindex", "sessionindex",
      "bearerindex">>

HeaderGroups ==
    <<"node", "sgid", "context_index", "gtpu_index", "filter_index",
      "session_index", "bearer_index">>

\* The tail  \s+KEYWORD\s+(\S+) ...  of PDP_CONTEXT_HEADER_RE from keyword k,
\* matched at position q of s: <<TRUE, groups>> or <<FALSE, <<>> >>
RECURSIVE HeaderTail(_, _, _)
HeaderTail(s, q, k) ==
    LET kw == SkipWS(s, q)
        g  == SkipWS(s, kw + 1)
        ge == SkipNonWS(s, g)
    IN  IF /\ kw > q /\ kw <= Len(s) /\ Lower(s[kw]) = HeaderKeywords[k]
           /\ g > kw + 1 /\ g <= Len(s)
        THEN IF k = Len(HeaderKeywords)
             THEN <<TRUE, <<SubSeq(s, g, ge - 1)>> >>
             ELSE LET rest == HeaderTail(s, ge, k + 1)
                  IN  IF rest[1]
                      THEN <<TRUE, <<SubSeq(s, g, ge - 1)>> \o rest[2]>>
                      ELSE <<FALSE, <<>> >>
        ELSE <<FALSE, <<>> >>

\* PDP_CONTEXT_HEADER_RE.match(s): <<TRUE, the seven groups>> or <<FALSE, <<>> >>.
\* The node group is non-greedy: the shortest node for which the tail matches.
PDP_CONTEXT_HEADER_RE(s) ==
    LET n0   == SkipWS(s, 2)
        ends == {e \in n0..Len(s) : HeaderTail(s, e + 1, 1)[1]}
    IN  IF /\ Len(s) >= 2 /\ Lower(s[1]) = "pdp context on"
           /\ n0 > 2 /\ ends # {}
        THEN <<TRUE, <<SubSeq(s, n0, Min(ends))>>
                       \o HeaderTail(s, Min(ends) + 1, 1)[2]>>
        ELSE <<FALSE, <<>> >>

-----------------------------------------------------------------------------
(* Python values.  A str is [str |-> tokens], a list [list |-> items], an  *)
(* int [int |-> n], a bool [bool |-> b], None is [none |-> TRUE], and a    *)
(* dict is [dict |-> entries], its entries <<key, value>> records in       *)
(* insertion order, the key a token sequence.                              *)

None == [none |-> TRUE]

Str(s) == [str |-> s]

IsStr(v) == DOMAIN v = {"str"}

IsList(v) == DOMAIN v = {"list"}

\* Results of a call: a returned value or a raised exception
Return(v) == [ret |-> v]

Raise(e) == [exc |-> e]

Raised(r) == DOMAIN r = {"exc"}

\* key in d
HasKey(d, key) == \E n \in 1..Len(d) : d[n].k = key

\* d[key], for a key of d
Get(d, key) == d[CHOOSE n \in 1..Len(d) : d[n].k = key].v

\* d[key] = v : a new key goes last, a present key keeps its place
Set(d, key, v) ==
    IF HasKey(d, key)
    THEN [n \in 1..Len(d) |-> IF d[n].k = key THEN [k |-> key, v |-> v] ELSE d[n]]
    ELSE Append(d, [k |-> key, v |-> v])

\* d after d.pop(key), for a key of d
Without(d, key) ==
    LET n == CHOOSE m \in 1..Len(d) : d[m].k = key
    IN  SubSeq(d, 1, n - 1) \o SubSeq(d, n + 1, Len(d))

\* extract_retcode(line): (code, message), or the AttributeError of
\* match.group on None when RETCODE_RE does not match
extract_retcode(line) ==
    LET m == RETCODE_RE(line)
        p == Min(m)
        d == SkipWS(line, SkipWS(line, p + 1) + 1)
        e == SkipDigits(line, d)
    IN  IF m = {} THEN Raise("AttributeError")
        ELSE Return([code |-> IntOfDigits(SubSeq(line, d, e - 1)),
                     message |-> strip(SubSeq(line, e, Len(line)))])

\* header_match.groupdict()
groupdict(groups) ==
    [n \in 1..Len(HeaderGroups) |-> [k |-> <<HeaderGroups[n]>>, v |-> Str(groups[n])]]

\* AddField as a plain assignment: a repeated key keeps its last value
AddField_overwrite(d, key, val) == Set(d, key, Str(val))

\* Lines 388-395: a repeated key turns its value into a list
AddField(d, key, val) ==
    IF HasKey(d, key)
    THEN LET existing == Get(d, key)
         IN  IF IsList(existing)
             THEN Set(d, key, [list |-> Append(existing.list, Str(val))])
             ELSE Set(d, key, [list |-> <<existing, Str(val)>>])
    ELSE Set(d, key, Str(val))

\* State of the loop of pdp_query_parser before any line
ScanInit == [contexts |-> <<>>, open |-> FALSE, current |-> <<>>, stop |-> FALSE]

\* One iteration of the loop of pdp_query_parser (lines 358-395)
ScanLine(st, line) ==
    LET s  == strip(line)
        hm == PDP_CONTEXT_HEADER_RE(s)
        eq == Min({q \in 1..Len(s) : s[q] = "="})
    IN  IF st.stop THEN st
        ELSE IF RESULT_COUNT_RE(line) THEN [st EXCEPT !.stop = TRUE]
        ELSE IF hm[1]
             THEN [st EXCEPT !.contexts = IF st.open THEN Append(@, st.current) ELSE @,
                             !.open = TRUE,
                             !.current = groupdict(hm[2])]
        ELSE IF ~st.open THEN st
        ELSE IF s = <<>> \/ "=" \notin Range(s) THEN st
        ELSE [st EXCEPT !.current =
                 AddField(@, strip(SubSeq(s, 1, eq - 1)),
                             strip(SubSeq(s, eq + 1, Len(s))))]

\* The loop of pdp_query_parser over the lines a..b: the iterations over the
\* first half of them, then those over the second half; none after the break
RECURSIVE ScanFrom(_, _, _, _)
ScanFrom(st, lines, a, b) ==
    IF a > b \/ st.stop THEN st
    ELSE IF a = b THEN ScanLine(st, lines[a])
    ELSE ScanFrom(ScanFrom(st, lines, a, (a + b) \div 2),
                  lines, (a + b) \div 2 + 1, b)

\* The contexts and the open context after the loop (lines 355-395)
Scan(lines) == ScanFrom(ScanInit, lines, 1, Len(lines))

\* ScannedContexts without storing the context still open after the loop
ScannedContexts_no_flush(lines) == Scan(lines).contexts

\* The contexts after the open one is stored (lines 397-400)
ScannedContexts(lines) ==
    LET flush(st) == IF st.open THEN Append(st.contexts, st.current) ELSE st.contexts
    IN  flush(Scan(lines))

-----------------------------------------------------------------------------
(* Conversions used by the enrichment functions *)

IntV(n) == [int |-> n]

BoolV(b) == [bool |-> b]

HexDigits ==
    <<"0", "1", "2", "3", "4", "5", "6", "7", "8", "9",
      "A", "B", "C", "D", "E", "F">>

HexDigitsLower ==
    <<"0", "1", "2", "3", "4", "5", "6", "7", "8", "9",
      "a", "b", "c", "d", "e", "f">>

IsHexDigit(t) == t \in Range(HexDigits) \cup Range(HexDigitsLower)

HexDigitValue(t) ==
    (CHOOSE n \in 1..16 : HexDigits[n] = t \/ HexDigitsLower[n] = t) - 1

\* int(s, 16) of a non-empty run of hexadecimal digits
RECURSIVE IntOfHex(_)
IntOfHex(s) ==
    IF Len(s) = 1 THEN HexDigitValue(s[1])
    ELSE 16 * IntOfHex(SubSeq(s, 1, Len(s) - 1)) + HexDigitValue(s[Len(s)])

\* Python integers are unbounded: one of more than MaxIntDigits digits is
\* kept as its decimal digits, without leading zeros
MaxIntDigits == 9

BigInt(s) ==
    LET nz == {q \in 1..Len(s) : s[q] # "0"}
    IN  IF nz = {} THEN IntV(0)
        ELSE IF Len(s) - Min(nz) + 1 <= MaxIntDigits
             THEN IntV(IntOfDigits(SubSeq(s, Min(nz), Len(s))))
             ELSE [bigint |-> SubSeq(s, Min(nz), Len(s))]

\* int(v): a str of digits converts, another str is a ValueError, a list a
\* TypeError
int(v) ==
    IF ~IsStr(v) THEN Raise("TypeError")
    ELSE IF v.str # <<>> /\ \A n \in 1..Len(v.str) : IsDigit(v.str[n])
         THEN Return(BigInt(v.str))
         ELSE Raise("ValueError")

\* int(v, 16)
int16(v) ==
    IF ~IsStr(v) THEN Raise("TypeError")
    ELSE IF v.str # <<>> /\ \A n \in 1..Len(v.str) : IsHexDigit(v.str[n])
         THEN Return(IntV(IntOfHex(v.str)))
         ELSE Raise("ValueError")

\* v[n:] of a str or a list
SliceFrom(v, n) ==
    IF IsStr(v) THEN Str(SubSeq(v.str, n + 1, Len(v.str)))
    ELSE [list |-> SubSeq(v.list, n + 1, Len(v.list))]

\* v[:-n] of a str or a list
SliceDropLast(v, n) ==
    IF IsStr(v) THEN Str(SubSeq(v.str, 1, Len(v.str) - n))
    ELSE [list |-> SubSeq(v.list, 1, Len(v.list) - n)]

\* v[:n] of a str or a list
SliceTo(v, n) ==
    IF IsStr(v) THEN Str(SubSeq(v.str, 1, Min({n, Len(v.str)})))
    ELSE [list |-> SubSeq(v.list, 1, Min({n, Len(v.list)}))]

\* bool(v) of a str or a list: empty is False
bool(v) == IF IsStr(v) THEN BoolV(v.str # <<>>) ELSE BoolV(v.list # <<>>)

\* v == "Yes"
IsYes(v) == BoolV(v = Str(<<"Yes">>))

\* None if v == "NULL" else v
NullToNone(v) == IF v = Str(<<"NULL">>) THEN None ELSE v

\* imei[:8], len("Kbps") and len("0x")
TacLen == 8

KbpsLen == 4

HexPrefixLen == 2

\* The expression a parse function applies to a popped value
Conv(c, v) ==
    CASE c = "int"   -> int(v)
      [] c = "yes"   -> Return(IsYes(v))
      [] c = "bool"  -> Return(bool(v))
      [] c = "null"  -> Return(NullToNone(v))
      [] c = "kbps"  -> int(SliceDropLast(v, KbpsLen))
      [] c = "hex"   -> int16(SliceFrom(v, HexPrefixLen))
      [] c = "slice" -> Return(SliceFrom(v, HexPrefixLen))
      [] c = "raw"   -> Return(v)

F(key, conv) == [key |-> <<key>>, conv |-> conv]

\* context.pop(key) for each field from the n-th on, in order, each value
\* converted as soon as it is popped: the dict that is left and the values,
\* or the first exception (KeyError for a missing key)
RECURSIVE PopFields(_, _, _)
PopFields(d, fields, n) ==
    IF n > Len(fields) THEN Return([d |-> d, vals |-> <<>>])
    ELSE IF ~HasKey(d, fields[n].key) THEN Raise("KeyError")
    ELSE
    LET popped(c, rest) ==
            IF Raised(c) THEN c
            ELSE IF Raised(rest) THEN rest
            ELSE Return([d |-> rest.ret.d, vals |-> <<c.ret>> \o rest.ret.vals])
    IN  popped(Conv(fields[n].conv, Get(d, fields[n].key)),
               PopFields(Without(d, fields[n].key), fields, n + 1))

\* A dict literal {k1: v1, ...}: a repeated key keeps its first place and
\* its last value
RECURSIVE DictOf(_)
DictOf(pairs) ==
    IF pairs = <<>> THEN <<>>
    ELSE Set(DictOf(SubSeq(pairs, 1, Len(pairs) - 1)),
             pairs[Len(pairs)][1], pairs[Len(pairs)][2])

Dict(pairs) == [dict |-> DictOf(pairs)]

-----------------------------------------------------------------------------
(* Reference tables (files/mcc-mnc.csv, files/ran.xlsx, files/tacdb.csv)   *)
(* as loaded at import: a fixture of a few rows each.                      *)

mnc_mcc_df ==
    <<[MCC |-> 288, MNC |-> 1, Network |-> <<"FT">>],
      [MCC |-> 288, MNC |-> 2, Network |-> <<"Nema">>]>>

ran_df ==
    <<[cellId |-> 20, SiteName |-> <<"TORSHAVN", "_", "1", "2", "5">>],
      [cellId |-> 3, SiteName |-> <<"KLAKSVIK", "_", "0">>]>>

tac_df ==
    <<[tac |-> <<"3", "5", "6", "9", "3", "8", "0", "3">>, name |-> <<"Phone">>]>>

\* str(n) of a natural number
RECURSIVE IntToDigits(_)
IntToDigits(n) ==
    IF n < 10 THEN <<Digits[n + 1]>>
    ELSE IntToDigits(n \div 10) \o <<Digits[(n % 10) + 1]>>

\* str.endswith
endswith(s, suffix) ==
    /\ Len(suffix) <= Len(s)
    /\ SubSeq(s, Len(s) - Len(suffix) + 1, Len(s)) = suffix

\* _df_query with the first row of the table for a mask that selects none
_df_query_first_row(df, mask) ==
    LET rows == {n \in 1..Len(df) : mask[n]}
    IN  IF rows = {} THEN [row |-> df[1]] ELSE [row |-> df[Min(rows)]]

\* _df_query(df, mask): the first row the mask selects as a dict, or None
\* (mask is the boolean Series of the comparison, one entry per row)
_df_query(df, mask) ==
    LET rows == {n \in 1..Len(df) : mask[n]}
    IN  IF rows = {} THEN None ELSE [row |-> df[Min(rows)]]

_get_cell(site_id, cell_id) ==
    _df_query(ran_df,
        [n \in 1..Len(ran_df) |->
            /\ ran_df[n].cellId = cell_id
            /\ endswith(ran_df[n].SiteName,
                        <<"_">> \o IntToDigits(site_id \div 10))])

_get_operator(mcc, mnc) ==
    _df_query(mnc_mcc_df,
        [n \in 1..Len(mnc_mcc_df) |->
            mnc_mcc_df[n].MCC = mcc /\ mnc_mcc_df[n].MNC = mnc])

_get_handset(tac) ==
    _df_query(tac_df, [n \in 1..Len(tac_df) |-> Str(tac_df[n].tac) = tac])

\* The bits of an ECI below the site identifier (>> 8 drops them)
CellBits == 8

\* 0xff: the bits of an ECI that & keeps as the cell identifier
CellMask == 255

\* v >> n of a non-negative integer: n times, the lowest bit is dropped
RECURSIVE ShiftRight(_, _)
ShiftRight(v, n) == IF n = 0 THEN v ELSE ShiftRight(v \div 2, n - 1)

\* a & b of non-negative integers, bit by bit from the lowest
RECURSIVE BitAnd(_, _)
BitAnd(a, b) ==
    IF a = 0 \/ b = 0 THEN 0
    ELSE (a % 2) * (b % 2) + 2 * BitAnd(a \div 2, b \div 2)

\* site_id with a shift by CellBits - 1 bits
site_id_shift7(eci) == ShiftRight(eci, CellBits - 1)

\* Line 162: site_id = ecgi_eci_value >> 8
site_id(eci) == ShiftRight(eci, CellBits)

\* Line 163: cell_id = ecgi_eci_value & 0xff
cell_id(eci) == BitAnd(eci, CellMask)

\* str.split(sep): the segments between the separators, at least one
RECURSIVE split(_, _)
split(s, sep) ==
    LET at == {q \in 1..Len(s) : s[q] = sep}
    IN  IF at = {} THEN <<s>>
        ELSE <<SubSeq(s, 1, Min(at) - 1)>> \o split(SubSeq(s, Min(at) + 1, Len(s)), sep)

\* v[n] (n counted from 0) of a str or a list, or IndexError
Index(v, n) ==
    IF IsStr(v)
    THEN IF n < Len(v.str) THEN Return(Str(<<v.str[n + 1]>>)) ELSE Raise("IndexError")
    ELSE IF n < Len(v.list) THEN Return(v.list[n + 1]) ELSE Raise("IndexError")

\* key, value = parts[n].split(":")
Unpack2(parts, n) ==
    IF n >= Len(parts) THEN Raise("IndexError")
    ELSE IF Len(split(parts[n + 1], ":")) # 2 THEN Raise("ValueError")
    ELSE Return(split(parts[n + 1], ":"))

\* The first exception of a sequence of results, or "" when none raised
FirstRaised(rs) ==
    LET bad == {n \in 1..Len(rs) : Raised(rs[n])}
    IN  IF bad = {} THEN "" ELSE rs[Min(bad)].exc

\* Statements run in order: the first exception, or every returned value
All(rs) ==
    IF FirstRaised(rs) # "" THEN Raise(FirstRaised(rs))
    ELSE Return([n \in 1..Len(rs) |-> rs[n].ret])

-----------------------------------------------------------------------------
(* Enrichment: each function pops the keys it consumes from the context    *)
(* and returns [d |-> the context left, val |-> its output], or raises.    *)

K(name) == <<name>>

parse_imei(context) ==
    LET imei == Get(context, K("IMEI"))
        tac  == SliceTo(imei, TacLen)
    IN  IF ~HasKey(context, K("IMEI")) THEN Raise("KeyError")
        \* a list compared with the tac column: lengths must match
        ELSE IF IsList(imei) /\ Len(tac.list) # Len(tac_df) THEN Raise("ValueError")
        ELSE IF Raised(int(imei)) THEN int(imei)
        ELSE Return([d |-> Without(context, K("IMEI")),
                     val |-> Dict(<<
                         <<K("imei"), int(imei).ret>>,
                         <<K("handset_info"), _get_handset(tac)>> >>)])

\* key, value = parts[n].split(":") for the four parts of each record
UnpackParts(ecgi_parts, tai_parts) ==
    All(<<Unpack2(ecgi_parts, 0), Unpack2(ecgi_parts, 1),
          Unpack2(ecgi_parts, 2), Unpack2(ecgi_parts, 3),
          Unpack2(tai_parts, 0), Unpack2(tai_parts, 1),
          Unpack2(tai_parts, 2), Unpack2(tai_parts, 3)>>)

\* The output dict of parse_user_location_information (lines 168-184) from
\* the unpacked parts and the converted numbers
LocationOf(un, ints) ==
    Dict(<<
        <<LowerStr(un[1][2]), Dict(<<
            <<LowerStr(un[2][1]), ints[1]>>,
            <<LowerStr(un[3][1]), ints[2]>>,
            <<LowerStr(un[4][1]), ints[6]>>,
            <<K("operator_info"), _get_operator(ints[1].int, ints[2].int)>>,
            <<K("ran_info"), _get_cell(site_id(ints[6].int),
                                       cell_id(ints[6].int))>> >>)>>,
        <<LowerStr(un[5][2]), Dict(<<
            <<LowerStr(un[6][1]), ints[3]>>,
            <<LowerStr(un[7][1]), ints[4]>>,
            <<LowerStr(un[8][1]), ints[5]>>,
            <<K("operator_info"), _get_operator(ints[3].int, ints[4].int)>> >>)>> >>)

parse_user_location_information(context) ==
    IF ~HasKey(context, K("User Location Information")) THEN Raise("KeyError")
    ELSE
    LET converted(un, ints) ==
            IF Raised(ints) THEN ints
            ELSE Return([d |-> Without(context, K("User Location Information")),
                         val |-> LocationOf(un, ints.ret)])
        unpacked(un) ==
            IF Raised(un) THEN un
            ELSE converted(un.ret,
                     All(<<int(Str(un.ret[2][2])), int(Str(un.ret[3][2])),
                           int(Str(un.ret[6][2])), int(Str(un.ret[7][2])),
                           int(Str(un.ret[8][2])), int(Str(un.ret[4][2]))>>))
        indexed(e0, t0) ==
            IF Raised(e0) THEN e0
            ELSE IF Raised(t0) THEN t0
            ELSE unpacked(UnpackParts(split(e0.ret.str, ";"),
                                      split(t0.ret.str, ";")))
    IN  indexed(Index(Get(context, K("User Location Information")), 0),
                Index(Get(context, K("User Location Information")), 1))

\* A parse function pops its fields in order (PopFields) and returns the dict
\* that is left with the output it builds from the converted values; an
\* exception of the pops goes on to its caller

parse_dscp(context) ==
    LET popped(r) ==
            IF Raised(r) THEN r
            ELSE Return([d |-> r.ret.d,
                         val |-> Dict(<< <<K("downlink"), r.ret.vals[1]>>,
                                         <<K("uplink"), r.ret.vals[2]>> >>)])
    IN  popped(PopFields(context,
            <<F("DOWN DSCP", "int"), F("UP DSCP", "int")>>, 1))

parse_apn_ambr(context) ==
    LET popped(r) ==
            IF Raised(r) THEN r
            ELSE Return([d |-> r.ret.d,
                         val |-> Dict(<< <<K("downlink"), r.ret.vals[1]>>,
                                         <<K("uplink"), r.ret.vals[2]>> >>)])
    IN  popped(PopFields(context,
            <<F("APN AmbrDown", "kbps"), F("APN AmbrUp", "kbps")>>, 1))

ArpOf(v) ==
    Dict(<< <<K("priority_level"), v[1]>>,
            <<K("preemption_capability"), v[2]>>,
            <<K("preemption_vulnerability"), v[3]>> >>)

parse_arp(context) ==
    LET popped(r) ==
            IF Raised(r) THEN r
            ELSE Return([d |-> r.ret.d, val |-> ArpOf(r.ret.vals)])
    IN  popped(PopFields(context,
            <<F("Allocation/Retention PRI", "int"),
            F("Allocation/Retention PRI PCI", "bool"),
            F("Allocation/Retention PRI PVI", "bool")>>, 1))

parse_requested_arp(context) ==
    LET popped(r) ==
            IF Raised(r) THEN r
            ELSE Return([d |-> r.ret.d, val |-> ArpOf(r.ret.vals)])
    IN  popped(PopFields(context,
            <<F("Request Allocation/Retention PRI", "int"),
            F("Request Allocation/Retention PRI PCI", "bool"),
            F("Request Allocation/Retention PRI PVI", "bool")>>, 1))

\* downlink and uplink are both popped before either is looked at
RateOf(v) ==
    Dict(<< <<K("downlink"), NullToNone(v[1])>>,
            <<K("uplink"), NullToNone(v[2])>> >>)

parse_gbr(context) ==
    LET popped(r) ==
            IF Raised(r) THEN r
            ELSE Return([d |-> r.ret.d, val |-> RateOf(r.ret.vals)])
    IN  popped(PopFields(context,
            <<F("Gua Bit Rate for Downlink", "raw"),
            F("Gua Bit Rate for Uplink", "raw")>>, 1))

parse_requested_gbr(context) ==
    LET popped(r) ==
            IF Raised(r) THEN r
            ELSE Return([d |-> r.ret.d, val |-> RateOf(r.ret.vals)])
    IN  popped(PopFields(context,
            <<F("Request Gua Bit Rate for Downlink", "raw"),
            F("Request Gua Bit Rate for Uplink", "raw")>>, 1))

parse_mbr(context) ==
    LET popped(r) ==
            IF Raised(r) THEN r
            ELSE Return([d |-> r.ret.d, val |-> RateOf(r.ret.vals)])
    IN  popped(PopFields(context,
            <<F("Max Bit Rate for Downlink", "raw"),
            F("Max Bit Rate for Uplink", "raw")>>, 1))

parse_requested_mbr(context) ==
    LET popped(r) ==
            IF Raised(r) THEN r
            ELSE Return([d |-> r.ret.d, val |-> RateOf(r.ret.vals)])
    IN  popped(PopFields(context,
            <<F("Request Max Bit Rate for Downlink", "raw"),
            F("Request Max Bit Rate for Uplink", "raw")>>, 1))

parse_qos(context) ==
    LET after_mbr(q, a, c, g, m) ==
            IF Raised(m) THEN m
            ELSE Return([d |-> m.ret.d,
                         val |-> Dict(<< <<K("qci"), q.ret.val>>,
                                         <<K("arp"), a.ret.val>>,
                                         <<K("dscp"), c.ret.val>>,
                                         <<K("gbr"), g.ret.val>>,
                                         <<K("mbr_kbps"), m.ret.val>> >>)])
        after_gbr(q, a, c, g) ==
            IF Raised(g) THEN g ELSE after_mbr(q, a, c, g, parse_mbr(g.ret.d))
        after_dscp(q, a, c) ==
            IF Raised(c) THEN c ELSE after_gbr(q, a, c, parse_gbr(c.ret.d))
        after_arp(q, a) ==
            IF Raised(a) THEN a ELSE after_dscp(q, a, parse_dscp(a.ret.d))
        after_qci(q) ==
            IF Raised(q) THEN q ELSE after_arp(q, parse_arp(q.ret.d))
        popped(r) ==
            IF Raised(r) THEN r
            ELSE Return([d |-> r.ret.d, val |-> r.ret.vals[1]])
    IN  after_qci(popped(PopFields(context,
            <<F("Qos Class Identifier", "int")>>, 1)))

parse_requested_qos(context) ==
    LET after_mbr(q, a, g, m) ==
            IF Raised(m) THEN m
            ELSE Return([d |-> m.ret.d,
                         val |-> Dict(<< <<K("qci"), q.ret.val>>,
                                         <<K("arp"), a.ret.val>>,
                                         <<K("gbr"), g.ret.val>>,
                                         <<K("mbr_kbps"), m.ret.val>> >>)])
        after_gbr(q, a, g) ==
            IF Raised(g) THEN g
            ELSE after_mbr(q, a, g, parse_requested_mbr(g.ret.d))
        after_arp(q, a) ==
            IF Raised(a) THEN a ELSE after_gbr(q, a, parse_requested_gbr(a.ret.d))
        after_qci(q) ==
            IF Raised(q) THEN q ELSE after_arp(q, parse_requested_arp(q.ret.d))
        popped(r) ==
            IF Raised(r) THEN r
            ELSE Return([d |-> r.ret.d, val |-> r.ret.vals[1]])
    IN  after_qci(popped(PopFields(context,
            <<F("Request Qos Class Identifier", "int")>>, 1)))

\* The negotiated characteristic is converted from the requested field's text
\* (line 287)
ChargingOf(v) ==
    Dict(<< <<K("id"), v[1]>>,
            <<K("rule_name"), v[2]>>,
            <<K("requested_charging_characteristic"), v[3]>>,
            <<K("negotiated_charging_characteristic"), v[3]>>,
            <<K("content_charging_flag"), v[5]>>,
            <<K("offline_charging"), v[6]>>,
            <<K("online_charging"), v[7]>>,
            <<K("sgw_offline_charging"), v[8]>> >>)

parse_charging_information(context) ==
    LET popped(r) ==
            IF Raised(r) THEN r
            ELSE Return([d |-> r.ret.d, val |-> ChargingOf(r.ret.vals)])
    IN  popped(PopFields(context,
            <<F("Charging ID", "int"),
            F("Charge Rule Base Name", "raw"),
            F("Requested Charging Characteristic", "hex"),
            F("Negotiated Charging Characteristic", "slice"),
            F("Content Charging Flag", "yes"),
            F("Offline Charging Flag", "yes"),
            F("Online Charging Flag", "yes"),
            F("SGW Offline Charging Flag", "yes")>>, 1))

MetadataOf(v) ==
    Dict(<< <<K("node"), v[1]>>,
            <<K("sgid"), v[2]>>,
            <<K("session_index"), v[3]>>,
            <<K("context_index"), v[4]>>,
            <<K("filter_index"), v[5]>>,
            <<K("bearer_index"), v[6]>>,
            <<K("gptu_index"), v[7]>> >>)

parse_metadata(context) ==
    LET popped(r) ==
            IF Raised(r) THEN r
            ELSE Return([d |-> r.ret.d, val |-> MetadataOf(r.ret.vals)])
    IN  popped(PopFields(context,
            <<F("node", "raw"), F("sgid", "raw"), F("session_index", "raw"),
            F("context_index", "raw"), F("filter_index", "raw"),
            F("bearer_index", "raw"), F("gtpu_index", "raw")>>, 1))

parse_overview(context) == Return([d |-> context, val |-> None])

\* The right-hand sides of the assignments of reformat (lines 321-330)
ReformatCall(key, context) ==
    CASE key = "bearer_id" ->
             LET popped(r) ==
                     IF Raised(r) THEN r
                     ELSE Return([d |-> r.ret.d, val |-> r.ret.vals[1]])
             IN  popped(PopFields(context,
                     <<F("EPS Bearer ID", "int")>>, 1))
      [] key = "default_bearer" ->
             LET popped(r) ==
                     IF Raised(r) THEN r
                     ELSE Return([d |-> r.ret.d, val |-> r.ret.vals[1]])
             IN  popped(PopFields(context,
                     <<F("Default Bearer", "yes")>>, 1))
      [] key = "location" -> parse_user_location_information(context)
      [] key = "imei" -> parse_imei(context)
      [] key = "qos" -> parse_qos(context)
      [] key = "requested_qos" -> parse_requested_qos(context)
      [] key = "apn_ambr (kbps)" -> parse_apn_ambr(context)
      [] key = "charging" -> parse_charging_information(context)
      [] key = "metadata" -> parse_metadata(context)
      [] key = "overview" -> parse_overview(context)

ReformatKeys ==
    <<"bearer_id", "default_bearer", "location", "imei", "qos", "requested_qos",
      "apn_ambr (kbps)", "charging", "metadata", "overview">>

\* context[key] = ... for the keys of reformat from the n-th on
RECURSIVE ReformatFrom(_, _)
ReformatFrom(context, n) ==
    IF n > Len(ReformatKeys) THEN Return(context)
    ELSE
    LET assigned(r) ==
            IF Raised(r) THEN r
            ELSE ReformatFrom(Set(r.ret.d, K(ReformatKeys[n]), r.ret.val), n + 1)
    IN  assigned(ReformatCall(ReformatKeys[n], context))

\* reformat(context): the enriched context, or the exception raised
reformat(context) == ReformatFrom(context, 1)

-----------------------------------------------------------------------------
(* The parsers *)

\* key.lower().replace(" ", "_") of one symbol of a key
NormSymbol(t) ==
    CASE t = " " -> "_"
      [] t = "apn_ambr (kbps)" -> "apn_ambr_(kbps)"
      [] OTHER -> Lower(t)

\* _normalize_keys(obj): dicts and lists recursively, other values unchanged
RECURSIVE _normalize_keys(_)
_normalize_keys(obj) ==
    IF DOMAIN obj = {"dict"}
    THEN [dict |-> DictOf([n \in 1..Len(obj.dict) |->
                      <<[m \in 1..Len(obj.dict[n].k) |-> NormSymbol(obj.dict[n].k[m])],
                        _normalize_keys(obj.dict[n].v)>>])]
    ELSE IF DOMAIN obj = {"list"}
    THEN [list |-> [n \in 1..Len(obj.list) |-> _normalize_keys(obj.list[n])]]
    ELSE obj

\* Index of the line that holds the result code
RETCODE_LINE == 5

\* ReformatAll with a context left out when its reformat raises
RECURSIVE ReformatAll_skip_failed(_, _)
ReformatAll_skip_failed(contexts, n) ==
    IF n > Len(contexts) THEN Return(<<>>)
    ELSE
    LET reformatted(r, rest) ==
            IF Raised(r) THEN rest
            ELSE Return(<<[dict |-> r.ret]>> \o rest.ret)
    IN  reformatted(reformat(contexts[n]), ReformatAll_skip_failed(contexts, n + 1))

\* reformat applied to each context in turn (lines 402-403): the enriched
\* contexts, or the first exception
RECURSIVE ReformatAll(_, _)
ReformatAll(contexts, n) ==
    IF n > Len(contexts) THEN Return(<<>>)
    ELSE
    LET reformatted(r, rest) ==
            IF Raised(r) THEN r
            ELSE IF Raised(rest) THEN rest
            ELSE Return(<<[dict |-> r.ret]>> \o rest.ret)
    IN  reformatted(reformat(contexts[n]), ReformatAll(contexts, n + 1))

\* pdp_query_parser with the result code looked for on every line, the first
\* line that holds one deciding
pdp_query_parser_any_line(t) ==
    LET first(text_lines, found) ==
            IF found = {} THEN Return(None)
            ELSE extract_retcode(text_lines[Min(found)])
        lines_with_code(text_lines) ==
            {n \in 1..Len(text_lines) : RETCODE_RE(text_lines[n]) # {}}
        normalized(out) ==
            IF Raised(out) THEN out
            ELSE Return(_normalize_keys([list |-> out.ret]))
        decided(text_lines, rc) ==
            IF Raised(rc) THEN rc
            ELSE IF rc.ret = None \/ rc.ret.code # 0 THEN Return(None)
            ELSE normalized(ReformatAll(ScannedContexts(text_lines), 1))
        parse_lines(text_lines) ==
            decided(text_lines, first(text_lines, lines_with_code(text_lines)))
    IN  parse_lines(splitlines(t))

\* pdp_query_parser without the early exit on a non-zero result code
pdp_query_parser_no_exit(t) ==
    LET normalized(out) ==
            IF Raised(out) THEN out
            ELSE Return(_normalize_keys([list |-> out.ret]))
        decided(text_lines, rc) ==
            IF Raised(rc) THEN rc
            ELSE normalized(ReformatAll(ScannedContexts(text_lines), 1))
        parse_lines(text_lines) ==
            IF Len(text_lines) <= RETCODE_LINE THEN Raise("IndexError")
            ELSE decided(text_lines, extract_retcode(text_lines[RETCODE_LINE + 1]))
    IN  parse_lines(splitlines(t))

pdp_query_parser(t) ==
    LET normalized(out) ==
            IF Raised(out) THEN out
            ELSE Return(_normalize_keys([list |-> out.ret]))
        decided(text_lines, rc) ==
            IF Raised(rc) THEN rc
            ELSE IF rc.ret.code # 0 THEN Return(None)
            ELSE normalized(ReformatAll(ScannedContexts(text_lines), 1))
        parse_lines(text_lines) ==
            IF Len(text_lines) <= RETCODE_LINE THEN Raise("IndexError")
            ELSE decided(text_lines, extract_retcode(text_lines[RETCODE_LINE + 1]))
    IN  parse_lines(splitlines(t))

\* Bounds of the data lines of an MMCTX response: text_lines[9:-2]
MM_DATA_START_LINE == 9

MM_DATA_END_LINE == 2

\* One iteration of the loop of mm_query_parser: k, v = line.strip().split("=", 1)
\* is a ValueError for a line without "="
MMLine(out, line) ==
    LET s  == strip(line)
        eq == Min({q \in 1..Len(s) : s[q] = "="})
    IN  IF "=" \notin Range(s) THEN Raise("ValueError")
        ELSE Return(Set(out, strip(SubSeq(s, 1, eq - 1)),
                        Str(strip(SubSeq(s, eq + 1, Len(s))))))

\* The loop of mm_query_parser over the lines a..b, from the dict r.ret: the
\* iterations over the first half of them, then those over the second half;
\* none after an exception
RECURSIVE MMFrom(_, _, _, _)
MMFrom(r, lines, a, b) ==
    IF a > b \/ Raised(r) THEN r
    ELSE IF a = b THEN MMLine(r.ret, lines[a])
    ELSE MMFrom(MMFrom(r, lines, a, (a + b) \div 2), lines, (a + b) \div 2 + 1, b)

mm_query_parser(t) ==
    LET collected(out) ==
            IF Raised(out) THEN out ELSE Return([dict |-> out.ret])
        decided(text_lines, rc) ==
            IF Raised(rc) THEN rc
            ELSE IF rc.ret.code # 0 THEN Return(None)
            ELSE collected(MMFrom(Return(<<>>), text_lines, MM_DATA_START_LINE + 1,
                                  Len(text_lines) - MM_DATA_END_LINE))
        parse_lines(text_lines) ==
            IF Len(text_lines) <= RETCODE_LINE THEN Raise("IndexError")
            ELSE decided(text_lines, extract_retcode(text_lines[RETCODE_LINE + 1]))
    IN  parse_lines(splitlines(t))

-----------------------------------------------------------------------------
(* Response texts *)

\* Longest run of lines after the result-code line of a successful response
MaxBody == 3

\* Longest run of lines after the result-code line of the other responses
MaxTail == 2

\* Longest response that ends before the result-code line
MaxShort == 5

JunkLine == <<"+++", " ", "UGW", " ", "2", "0", "2", "5">>

RetLine(code, message) == <<"RETCODE", " ", "=", " ">> \o code \o message

HeaderLine(node, sgid) ==
    <<"PDP context on", " ">> \o node \o
    <<" ", "SGID", " ", sgid, " ", "ContextIndex", " ", "2", " ", " ",
      "GtpuIndex", " ", "3", " ", "FilterIndex", " ", "4", " ",
      "SessionIndex", " ", "5", " ", "BearerIndex", " ", "6">>

KVLine(key, val) == <<" ", " ">> \o key \o <<" ", " ", "=", " ", " ">> \o val

MarkerLine == <<"(Number of results", " ", "=", " ", "1", ")">>

EndLine == <<"---    END">>

\* The text of a sequence of lines, each ended by a line break
RECURSIVE Join(_)
Join(lines) ==
    IF lines = <<>> THEN <<>>
    ELSE IF Len(lines) = 1 THEN lines[1] \o <<NL>>
    ELSE Join(SubSeq(lines, 1, Len(lines) \div 2))
         \o Join(SubSeq(lines, Len(lines) \div 2 + 1, Len(lines)))

Success0 == RetLine(<<"0">>, <<" ", " ", "Operation", " ", "success">>)

Failure1 == RetLine(<<"1">>, <<" ", " ", "No", " ", "such", " ", "user">>)

Failure20 == RetLine(<<"2", "0">>, <<>>)

\* The lines a response body is made of
BodyLines ==
    {HeaderLine(<<"UGW1">>, "1"),
     HeaderLine(<<"ugw", " ", "2">>, "7"),
     KVLine(<<"APN">>, <<"a">>),
     KVLine(<<"APN">>, <<"b", "=", "c">>),
     KVLine(<<"Bearer", " ", "Type">>, <<"a">>),
     KVLine(<<"sgid">>, <<"b">>),
     JunkLine,
     MarkerLine}

\* The first six lines of a response: what precedes the result-code line and
\* the line at RETCODE_LINE
Heads ==
    {<<JunkLine, JunkLine, JunkLine, JunkLine, JunkLine>> \o <<l>> :
        l \in {Success0, Failure1, Failure20, JunkLine, <<>>,
               KVLine(<<"APN">>, <<"a">>),
               <<"%%">> \o RetLine(<<"0", "0">>, <<>>)}}
    \cup
    {<<Success0, JunkLine, JunkLine, JunkLine, JunkLine, JunkLine>>,
     <<Failure1, JunkLine, JunkLine, JunkLine, JunkLine, Success0>>,
     <<JunkLine, JunkLine, JunkLine, JunkLine, Success0, Failure1>>}

Seqs(S, n) == UNION {[1..m -> S] : m \in 0..n}

\* The six lines that open a response of the network element that succeeded
SuccessHead == <<JunkLine, JunkLine, JunkLine, JunkLine, JunkLine, Success0>>

\* Responses of a few lines: the longer bodies after the success lines, the
\* shorter ones after any first six lines
SampleTexts ==
    {Join(SuccessHead \o b) : b \in Seqs(BodyLines, MaxBody)}
    \cup
    {Join(h \o b) : h \in Heads, b \in Seqs(BodyLines, MaxTail)}
    \cup
    {Join(b) : b \in Seqs({JunkLine, Success0, Failure1}, MaxShort)}
    \cup
    \* responses cut inside their last line by the read timeout
    {SubSeq(Join(h), 1, Len(Join(h)) - 2) : h \in Heads}

\* Most context blocks in a response with complete contexts
MaxRecords == 2

\* The fields of a complete PDP context, as the UGW prints them
FullFields ==
    <<<<"EPS Bearer ID", <<"5">>>>,
      <<"Default Bearer", <<"Yes">>>>,
      <<"User Location Information",
        <<"Type", ":", "ECGI", ";", "MCC", ":", "2", "8", "8", ";",
          "MNC", ":", "0", "1", ";", "ECI", ":", "3", "2", "0", "2", "7", "6">>>>,
      <<"User Location Information",
        <<"Type", ":", "TAI", ";", "MCC", ":", "2", "8", "8", ";",
          "MNC", ":", "0", "2", ";", "TAC", ":", "2", "0", "0", "0">>>>,
      <<"IMEI", <<"3", "5", "6", "9", "3", "8", "0", "3", "5", "6", "4", "3",
                  "8", "0", "9">>>>,
      <<"Qos Class Identifier", <<"9">>>>,
      <<"Allocation/Retention PRI", <<"1", "5">>>>,
      <<"Allocation/Retention PRI PCI", <<"No">>>>,
      <<"Allocation/Retention PRI PVI", <<"Yes">>>>,
      <<"DOWN DSCP", <<"0">>>>,
      <<"UP DSCP", <<"1", "0">>>>,
      <<"Gua Bit Rate for Downlink", <<"NULL">>>>,
      <<"Gua Bit Rate for Uplink", <<"6", "4">>>>,
      <<"Max Bit Rate for Downlink", <<"NULL">>>>,
      <<"Max Bit Rate for Uplink", <<"NULL">>>>,
      <<"Request Qos Class Identifier", <<"8">>>>,
      <<"Request Allocation/Retention PRI", <<"2">>>>,
      <<"Request Allocation/Retention PRI PCI", <<"Yes">>>>,
      <<"Request Allocation/Retention PRI PVI", <<"No">>>>,
      <<"Request Gua Bit Rate for Downlink", <<"NULL">>>>,
      <<"Request Gua Bit Rate for Uplink", <<"NULL">>>>,
      <<"Request Max Bit Rate for Downlink", <<"1", "2", "8">>>>,
      <<"Request Max Bit Rate for Uplink", <<"NULL">>>>,
      <<"APN AmbrDown", <<"5", "0", "0", "K", "b", "p", "s">>>>,
      <<"APN AmbrUp", <<"9", "0", "K", "b", "p", "s">>>>,
      <<"Charging ID", <<"7", "7">>>>,
      <<"Charge Rule Base Name", <<"default">>>>,
      <<"Requested Charging Characteristic", <<"0", "x", "0", "8", "0", "0">>>>,
      <<"Negotiated Charging Characteristic", <<"0", "x", "0", "4", "0", "0">>>>,
      <<"Content Charging Flag", <<"Yes">>>>,
      <<"Offline Charging Flag", <<"No">>>>,
      <<"Online Charging Flag", <<"Yes">>>>,
      <<"SGW Offline Charging Flag", <<"No">>>>>>

FullLines == [n \in 1..Len(FullFields) |-> KVLine(<<FullFields[n][1]>>, FullFields[n][2])]

\* s without its n-th element
Remove(s, n) == SubSeq(s, 1, n - 1) \o SubSeq(s, n + 1, Len(s))

\* FullLines with the value of its n-th field replaced
WithValue(lines, n, val) ==
    [m \in 1..Len(lines) |-> IF m = n THEN KVLine(<<FullFields[n][1]>>, val) ELSE lines[m]]

\* A complete context of a subscriber no reference table knows: the network
\* 288-03, the cell 255 of site 5 and the handset 12345678 have no row
MissLines ==
    WithValue(
        WithValue(FullLines, 3,
            <<"Type", ":", "ECGI", ";", "MCC", ":", "2", "8", "8", ";",
              "MNC", ":", "0", "3", ";", "ECI", ":", "1", "5", "3", "5">>),
        5, <<"1", "2", "3", "4", "5", "6", "7", "8", "0", "0", "0", "0", "0", "0", "1">>)

\* A complete context in the cell 3 of site 0
SmallLines ==
    WithValue(FullLines, 3,
        <<"Type", ":", "ECGI", ";", "MCC", ":", "2", "8", "8", ";",
          "MNC", ":", "0", "1", ";", "ECI", ":", "3">>)

\* A complete context with fields the enrichment does not consume: one whose
\* name is that of a key reformat adds but for its case, and two whose names
\* differ by case and by "_" for " "
ClashLines ==
    <<KVLine(<<"Overview">>, <<"a">>),
      KVLine(<<"Bearer", " ", "Type">>, <<"a">>)>>
    \o FullLines \o <<KVLine(<<"bearer", "_", "type">>, <<"b">>)>>

\* The bodies of the context blocks: complete, with a field missing, with
\* fields the enrichment does not consume, with a field repeated
BlockBodies ==
    {FullLines,
     Remove(FullLines, 1),
     Remove(FullLines, 4),
     Remove(FullLines, Len(FullLines)),
     <<KVLine(<<"APN">>, <<"b">>)>> \o FullLines,
     <<KVLine(<<"APN">>, <<"a">>)>> \o FullLines \o <<KVLine(<<"Bearer", " ", "Type">>, <<"a">>), JunkLine,
                    KVLine(<<"APN">>, <<"b">>), KVLine(<<"APN">>, <<"a">>)>>}

Blocks == {<<HeaderLine(<<"UGW1">>, "1")>> \o b : b \in BlockBodies}

RECURSIVE Concat(_)
Concat(ss) == IF ss = <<>> THEN <<>> ELSE ss[1] \o Concat(Tail(ss))

\* What follows the context blocks: the result count, with or without lines
\* after it, or nothing (a response cut by the read timeout)
Endings ==
    {<<MarkerLine, <<>>, EndLine>>,
     <<MarkerLine, HeaderLine(<<"UGW1">>, "1"), KVLine(<<"APN">>, <<"a">>)>>,
     <<>>}

RecordTexts ==
    {Join(SuccessHead \o Concat(bs) \o e) : bs \in Seqs(Blocks, MaxRecords), e \in Endings}

\* Responses of one context whose values miss the tables, or whose keys
\* collide once normalised
VariantBodies == {MissLines, SmallLines, ClashLines}

VariantTexts ==
    {Join(SuccessHead \o <<HeaderLine(<<"UGW1">>, "1")>> \o b \o e) :
        b \in VariantBodies, e \in Endings}

\* Most data lines of an MMCTX response
MaxFlat == 3

\* The lines 7 to 9 of an MMCTX response, which the USN prints before the data
FlatTitles ==
    {<<JunkLine, JunkLine, JunkLine>>,
     <<KVLine(<<"APN">>, <<"a">>), JunkLine, <<>>>>}

\* The lines the data of an MMCTX response is made of
FlatLines ==
    {KVLine(<<"IMSI">>, <<"1">>),
     KVLine(<<"IMSI">>, <<"2">>),
     KVLine(<<"MM", " ", "State">>, <<"a", "=", "b">>),
     JunkLine,
     MarkerLine}

\* The last two lines of an MMCTX response
FlatEndings == {<<MarkerLine, EndLine>>, <<<<>>, EndLine>>}

FlatTexts ==
    {Join(SuccessHead \o h \o b \o e) :
        h \in FlatTitles, b \in Seqs(FlatLines, MaxFlat), e \in FlatEndings}

Texts == SampleTexts \cup RecordTexts \cup VariantTexts \cup FlatTexts

-----------------------------------------------------------------------------
(* Parser specification: a parser applied to a response text *)

NotParsed == [pending |-> TRUE]

NoError == [none |-> TRUE]

\* A client just constructed (HuaweiMaeClient.__init__), nothing done yet
SessionInit ==
    /\ pc = "connect"
    /\ tn = "None"
    /\ sock = "none"
    /\ closes = 0
    /\ sent = <<>>
    /\ reads = 0
    /\ idx = 0
    /\ response_dict = <<>>
    /\ outcome = "none"
    /\ err = NoError
    /\ swallowed = FALSE

InitParse ==
    /\ SessionInit
    /\ ne_dict = <<>>
    /\ query = <<>>
    /\ parser \in {"pdp", "mm"}
    /\ text \in Texts
    /\ parsed = NotParsed

ParsePdp ==
    /\ parser = "pdp" /\ parsed = NotParsed
    /\ parsed' = pdp_query_parser(text)
    /\ UNCHANGED <<sessionVars, parser, text>>

ParseMm ==
    /\ parser = "mm" /\ parsed = NotParsed
    /\ parsed' = mm_query_parser(text)
    /\ UNCHANGED <<sessionVars, parser, text>>

NextParse == ParsePdp \/ ParseMm

SpecParse == InitParse /\ [][NextParse]_vars

-----------------------------------------------------------------------------
(* Location specification: parse_user_location_information applied to the  *)
(* location of a context, over a range of cell identities                  *)

\* Largest cell identity of the range 0..MaxEci
MaxEci == 2600

\* The cell identities: the low ones, and those around the sites 1250 to 1259
EciValues ==
    (0..MaxEci) \cup {s * 256 + c : s \in 1249..1260, c \in {0, 19, 20, 21, 255}}

\* The ECGI record of a context for the cell identity whose digits are given
EcgiOf(eci) ==
    <<"Type", ":", "ECGI", ";", "MCC", ":", "2", "8", "8", ";",
      "MNC", ":", "0", "1", ";", "ECI", ":">> \o eci

\* A context as the scan leaves it, with the two location records
LocationContext(eci) ==
    <<[k |-> K("APN"), v |-> Str(<<"a">>)],
      [k |-> K("User Location Information"),
       v |-> [list |-> <<Str(EcgiOf(eci)), Str(FullFields[4][2])>>]]>>

InitLocation ==
    /\ SessionInit
    /\ ne_dict = <<>>
    /\ query = <<>>
    /\ parser = "location"
    /\ text \in {IntToDigits(v) : v \in EciValues}
    /\ parsed = NotParsed

ParseLocation ==
    /\ parser = "location" /\ parsed = NotParsed
    /\ parsed' = parse_user_location_information(LocationContext(text))
    /\ UNCHANGED <<sessionVars, parser, text>>

NextLocation == ParseLocation

SpecLocation == InitLocation /\ [][NextLocation]_vars

-----------------------------------------------------------------------------
(* The request handlers of app.py and the session of connector.py *)

\* Most endpoints in ugw_dict or usn_dict
MaxEndpoints == 3

Endpoint(n) ==
    [name |-> <<"NE">> \o IntToDigits(n), ip |-> <<"10.0.0.">> \o IntToDigits(n)]

\* Label with the name alone
Label_name_only(e) == e.name

\* Line 67: f'{name} ({ip})'
Label(e) == e.name \o <<" ", "(">> \o e.ip \o <<")">>

\* Lines 50, 53, 56: the commands of _login, _reg_ne and _reg_vnfc
LoginCommand(username, password) ==
    <<"LGI:OP=", "\"">> \o username \o <<"\"", ",", " ", "PWD=", "\"">>
    \o password \o <<"\"", ";">>

RegNeCommand(ip) == <<"REG NE:IP=", "\"">> \o ip \o <<"\"", ";">>

RegVnfcCommand(name) == <<"REG VNFC:NAME=", "\"">> \o name \o <<"\"", ";">>

\* app.py lines 33 and 51: the query of get_ugw_pdp and of get_usn_mm
QueryCommand(route, query_type, value) ==
    IF route = "pdp"
    THEN <<"DSP PDPCTXT:QUERYTYPE=">> \o query_type \o <<",">> \o query_type
         \o <<"=", "\"">> \o value \o <<"\"", ";">>
    ELSE <<"DSP MMCTX:QUERYOPT=BY">> \o query_type \o <<",">> \o query_type
         \o <<"=", "\"">> \o value \o <<"\"", ";">>

\* app.py lines 36 and 54: the subsystem role of each handler
Vnfc(route) == IF route = "pdp" THEN <<"ugw">> ELSE <<"omo">>

Username == <<"admin">>

Password == <<"secret">>

\* What the transport does with a command: it is written and a response is
\* read (complete, or cut by the read timeout), the write fails, or the
\* write succeeds and the read fails.  Once the peer has closed the
\* connection no read succeeds.
CommandOutcomes ==
    IF swallowed THEN {"write_error", "read_error"}
    ELSE {"ok", "write_error", "read_error"}

\* The exception of a failed write or read
TransportError(r) ==
    IF r = "write_error" THEN [type |-> "OSError"] ELSE [type |-> "EOFError"]

IsTransportError(e) == e \in {[type |-> "OSError"], [type |-> "EOFError"]}

\* Line 45: self.tn.write((cmd + "\r\n").encode(...)), when the write succeeds
Written(r, cmd, ne) ==
    IF r = "write_error" THEN sent
    ELSE Append(sent, [cmd |-> cmd \o <<NL>>, ne |-> ne])

\* The responses a query may get
QueryResponses ==
    {<<>>,
     Join(SuccessHead),
     Join(<<JunkLine, JunkLine, JunkLine, JunkLine, JunkLine, Failure1, EndLine>>),
     Join(SuccessHead \o <<HeaderLine(<<"UGW1">>, "1")>> \o FullLines
          \o <<MarkerLine, <<>>, EndLine>>),
     Join(SuccessHead \o <<HeaderLine(<<"UGW1">>, "1")>> \o Remove(FullLines, 1)
          \o <<MarkerLine, <<>>, EndLine>>),
     Join(SuccessHead \o <<HeaderLine(<<"UGW1">>, "1")>> \o FullLines
          \o <<HeaderLine(<<"UGW1">>, "7")>> \o Remove(FullLines, Len(FullLines))
          \o <<HeaderLine(<<"UGW1">>, "1")>> \o FullLines
          \o <<MarkerLine, <<>>, EndLine>>)}

\* The parse argument of query_ne_dict
parse(route, t) == IF route = "pdp" THEN pdp_query_parser(t) ELSE mm_query_parser(t)

Init ==
    /\ SessionInit
    /\ ne_dict \in {[n \in 1..m |-> Endpoint(n)] : m \in 0..MaxEndpoints}
    /\ parser \in {"pdp", "mm"}
    /\ query \in {QueryCommand(parser, t, <<"298123456">>) : t \in {<<"IMSI">>, <<"MSISDN">>}}
    /\ text = <<>>
    /\ parsed = NotParsed

\* NextEndpoint with a loop that leaves out the last endpoint
NextEndpoint_skip_last(i) == IF i + 1 < Len(ne_dict) THEN "reg_ne" ELSE "return"

\* Line 62: the loop of query_ne_dict after endpoint i (0: before the first)
NextEndpoint(i) == IF i < Len(ne_dict) THEN "reg_ne" ELSE "return"

\* RaiseInBlock with a loop that goes on to the next endpoint after an exception
RaiseInBlock_resume(e) == [pc |-> NextEndpoint(idx), err |-> e]

\* RaiseInBlock with the exception wrapped in an error that names the endpoint
RaiseInBlock_labelled(e) ==
    [pc |-> "exit",
     err |-> [type |-> "DispatchError", cause |-> e,
              label |-> IF idx = 0 THEN <<>> ELSE Label(ne_dict[idx])]]

\* An exception raised inside the with block of the handler: nothing in
\* query_ne_dict or in the handler catches it, so it leaves the block through
\* __exit__
RaiseInBlock(e) == [pc |-> "exit", err |-> e]

\* close() (lines 30-35): the transport is closed if there is one, and tn is
\* None afterwards
close ==
    IF tn # "None"
    THEN [tn |-> "None", sock |-> "closed", closes |-> closes + 1]
    ELSE [tn |-> tn, sock |-> sock, closes |-> closes]

\* connect(), line 23: telnetlib.Telnet(host, port, timeout) connects, or
\* raises and leaves tn as it was; __enter__ raised, so __exit__ is not run
Connect ==
    /\ pc = "connect"
    /\ \E r \in {"ok", "refused"} :
          IF r = "ok"
          THEN /\ tn' = "Telnet" /\ sock' = "open" /\ pc' = "prompt"
               /\ UNCHANGED <<outcome, err>>
          ELSE /\ pc' = "done" /\ outcome' = "raised" /\ err' = [type |-> "OSError"]
               /\ UNCHANGED <<tn, sock>>
    /\ UNCHANGED <<ne_dict, query, closes, sent, reads, idx, response_dict, swallowed,
                   parserVars>>

\* connect(), lines 24-28: read_until the prompt.  The prompt arrives, or the
\* timeout passes, or the peer has closed the connection (EOFError, caught),
\* or the read fails otherwise (ConnectionResetError, an OSError, not caught:
\* __enter__ raised, so __exit__ is not run)
PromptSync ==
    /\ pc = "prompt"
    /\ \E r \in {"prompt", "timeout", "eof", "reset"} :
          IF r = "reset"
          THEN /\ pc' = "done" /\ outcome' = "raised" /\ err' = [type |-> "OSError"]
               /\ UNCHANGED swallowed
          ELSE /\ pc' = "login" /\ swallowed' = (r = "eof")
               /\ UNCHANGED <<outcome, err>>
    /\ UNCHANGED <<ne_dict, query, tn, sock, closes, sent, reads, idx, response_dict,
                   parserVars>>

\* Line 46: self.tn.read_until(self.mml_prompt, timeout=self.timeout) has
\* returned, with the response up to the prompt or with what the timeout left
ReadUntil(r) == IF r = "ok" THEN reads + 1 ELSE reads

\* A command whose response is not looked at: _login, _reg_ne, _reg_vnfc
SendCommand(cmd, ne, then) ==
    \E r \in CommandOutcomes :
        /\ sent' = Written(r, cmd, ne)
        /\ reads' = ReadUntil(r)
        /\ IF r = "ok"
           THEN pc' = then /\ UNCHANGED err
           ELSE /\ pc' = RaiseInBlock(TransportError(r)).pc
                /\ err' = RaiseInBlock(TransportError(r)).err

\* query_ne_dict, line 59
Login ==
    /\ pc = "login"
    /\ SendCommand(LoginCommand(Username, Password), 0, NextEndpoint(0))
    /\ idx' = IF pc' = "reg_ne" THEN 1 ELSE idx
    /\ UNCHANGED <<ne_dict, query, tn, sock, closes, response_dict, outcome,
                   swallowed, parserVars>>

\* RegNe with the query sent next, the registration of the role left out
RegNe_then_query ==
    /\ pc = "reg_ne"
    /\ SendCommand(RegNeCommand(ne_dict[idx].ip), idx, "query")
    /\ UNCHANGED <<ne_dict, query, tn, sock, closes, idx, response_dict, outcome,
                   swallowed, parserVars>>

\* query_ne_dict, line 63
RegNe ==
    /\ pc = "reg_ne"
    /\ SendCommand(RegNeCommand(ne_dict[idx].ip), idx, "reg_vnfc")
    /\ UNCHANGED <<ne_dict, query, tn, sock, closes, idx, response_dict, outcome,
                   swallowed, parserVars>>

\* query_ne_dict, line 64
RegVnfc ==
    /\ pc = "reg_vnfc"
    /\ SendCommand(RegVnfcCommand(Vnfc(parser)), idx, "query")
    /\ UNCHANGED <<ne_dict, query, tn, sock, closes, idx, response_dict, outcome,
                   swallowed, parserVars>>

\* query_ne_dict, lines 66-67: the query is sent, its response read and
\* parsed, and the result stored under the endpoint's label
Query ==
    /\ pc = "query"
    /\ \E r \in CommandOutcomes :
          /\ sent' = Written(r, query, idx)
          /\ reads' = ReadUntil(r)
          /\ IF r = "ok"
             THEN \E t \in QueryResponses :
                     /\ text' = t
                     /\ parsed' = parse(parser, t)
                     /\ IF Raised(parsed')
                        THEN /\ pc' = RaiseInBlock([type |-> parsed'.exc]).pc
                             /\ err' = RaiseInBlock([type |-> parsed'.exc]).err
                             /\ UNCHANGED <<response_dict, idx>>
                        ELSE /\ response_dict' =
                                   Set(response_dict, Label(ne_dict[idx]), parsed'.ret)
                             /\ pc' = NextEndpoint(idx)
                             /\ idx' = IF pc' = "reg_ne" THEN idx + 1 ELSE idx
                             /\ UNCHANGED err
             ELSE /\ pc' = RaiseInBlock(TransportError(r)).pc
                  /\ err' = RaiseInBlock(TransportError(r)).err
                  /\ UNCHANGED <<response_dict, idx, text, parsed>>
    /\ UNCHANGED <<ne_dict, query, tn, sock, closes, outcome, swallowed, parser>>

\* query_ne_dict, line 69: return response_dict
Return_ ==
    /\ pc = "return"
    /\ pc' = "exit"
    /\ UNCHANGED <<ne_dict, query, tn, sock, closes, sent, reads, idx, response_dict,
                   outcome, err, swallowed, parserVars>>

\* __exit__ (lines 41-42) closes the session; then the handler returns
\* jsonify(result), or the exception in flight goes on to the caller
Exit ==
    /\ pc = "exit"
    /\ tn' = close.tn /\ sock' = close.sock /\ closes' = close.closes
    /\ outcome' = IF err = NoError THEN "returned" ELSE "raised"
    /\ pc' = "done"
    /\ UNCHANGED <<ne_dict, query, sent, reads, idx, response_dict, err, swallowed,
                   parserVars>>

Next == Connect \/ PromptSync \/ Login \/ RegNe \/ RegVnfc \/ Query \/ Return_ \/ Exit

Spec == Init /\ [][Next]_vars

-----------------------------------------------------------------------------
(* Properties of the dispatcher *)

\* C1, as stated: on every path of an invocation an opened transport handle
\* is released exactly once, and no invocation ends with the session still
\* holding a live handle.
C1_NoLiveHandleAtEnd ==
    pc = "done" =>
        /\ tn = "None"
        /\ sock # "open"
        /\ (sock = "closed" => closes = 1)

\* The command the n-th write of an invocation carries when the session is
\* used once for all endpoints
ExpectedCommand(n) ==
    IF n = 1
    THEN [cmd |-> LoginCommand(Username, Password) \o <<NL>>, ne |-> 0]
    ELSE [cmd |-> (CASE (n - 2) % 3 = 0 -> RegNeCommand(ne_dict[(n - 2) \div 3 + 1].ip)
                     [] (n - 2) % 3 = 1 -> RegVnfcCommand(Vnfc(parser))
                     [] (n - 2) % 3 = 2 -> query) \o <<NL>>,
          ne  |-> (n - 2) \div 3 + 1]

\* C2, as stated: a session carries at most one authenticate, register, send,
\* read sequence, so at most one query is written on it.
C2_OneQueryPerSession ==
    Cardinality({n \in 1..Len(sent) : sent[n].cmd = query \o <<NL>>}) <= 1

\* C2, amended: one session serves the whole invocation.  It is opened once
\* and authenticated once, first; then for each endpoint in iteration order
\* the element is registered, the role is registered and the query is
\* executed, the result stored under the endpoint's label; an invocation that
\* returns has done so for every endpoint, and has closed the session once.
C2_OneSessionAllEndpoints ==
    /\ Len(sent) <= 1 + 3 * Len(ne_dict)
    /\ \A n \in 1..Len(sent) : sent[n] = ExpectedCommand(n)
    /\ Len(response_dict) <= Len(ne_dict)
    /\ \A n \in 1..Len(response_dict) : response_dict[n].k = Label(ne_dict[n])
    /\ closes <= 1
    /\ outcome = "returned" =>
          /\ Len(sent) = 1 + 3 * Len(ne_dict)
          /\ Len(response_dict) = Len(ne_dict)
          /\ closes = 1 /\ sock = "closed"

C2_Witness ==
    /\ outcome = "returned"
    /\ Len(ne_dict) >= 2
    /\ Cardinality({n \in 1..Len(sent) : sent[n].cmd = query \o <<NL>>}) = Len(ne_dict)
    /\ closes = 1

\* C3: once an endpoint has failed with a transport error, no command is
\* sent any more, for that endpoint or a later one, and no result mapping is
\* returned to the caller: what was collected for earlier endpoints is lost.
C3_AbortsAndReturnsNothing ==
    [][(idx >= 1 /\ IsTransportError(err)) =>
           (sent' = sent /\ outcome' # "returned")]_vars

C3_Witness ==
    /\ pc = "done" /\ outcome = "raised"
    /\ IsTransportError(err)
    /\ idx >= 2 /\ idx < Len(ne_dict)
    /\ Len(response_dict) = idx - 1
    /\ \A n \in 1..Len(sent) : sent[n].ne <= idx

\* C4, as stated: the failure that reaches the caller is a dispatch error
\* that carries the label of the endpoint that failed and the cause.
C4_ErrorCarriesLabel ==
    (pc = "done" /\ outcome = "raised" /\ idx >= 1) =>
        /\ DOMAIN err = {"type", "cause", "label"}
        /\ err.label = Label(ne_dict[idx])

\* C4, amended: the failure that reaches the caller is the exception of the
\* transport or of the parser itself, as raised: nothing wraps it, and
\* nothing in it names the endpoint that failed.
C4_ErrorIsBareCause ==
    outcome = "raised" =>
        /\ DOMAIN err = {"type"}
        /\ err.type \in {"OSError", "EOFError", "IndexError", "AttributeError",
                         "KeyError", "ValueError"}

C4_Witness ==
    /\ pc = "done" /\ outcome = "raised"
    /\ idx >= 1 /\ idx < Len(ne_dict)
    /\ err = [type |-> "EOFError"]

\* C5, as stated: a transport error at any step, prompt synchronisation
\* included, closes the session and reaches the caller as an error, and no
\* command is sent on the session after it.
C5_TransportErrorCloses ==
    (pc = "done" /\ (swallowed \/ IsTransportError(err))) =>
        /\ sock # "open"
        /\ outcome = "raised"
        /\ (swallowed => sent = <<>>)

-----------------------------------------------------------------------------
(* Properties of the parsers.  The definitions below describe a response   *)
(* by its lines, without running the parser's loop.                        *)

Ran == parsed # NotParsed

\* The lines that hold a result code
RetcodeLines(lines) == {n \in 1..Len(lines) : RETCODE_RE(lines[n]) # {}}

CodeOfLine(line) == extract_retcode(line).ret.code

\* The line at RETCODE_LINE exists and holds a result code
SixthLineHasCode(lines) ==
    Len(lines) > RETCODE_LINE /\ RETCODE_RE(lines[RETCODE_LINE + 1]) # {}

\* The line at RETCODE_LINE exists and holds a result code, which is not zero
SixthLineFails(lines) ==
    SixthLineHasCode(lines) /\ CodeOfLine(lines[RETCODE_LINE + 1]) # 0

IsHeaderLine(l) == PDP_CONTEXT_HEADER_RE(strip(l))[1]

\* The first line with a result count (one past the last line when none)
StopLine(lines) ==
    Min({n \in 1..Len(lines) : RESULT_COUNT_RE(lines[n])} \cup {Len(lines) + 1})

RECURSIVE Sorted(_)
Sorted(S) == IF S = {} THEN <<>> ELSE <<Min(S)>> \o Sorted(S \ {Min(S)})

\* The header lines before the result count, in order
HeaderAt(lines) == Sorted({n \in 1..(StopLine(lines) - 1) : IsHeaderLine(lines[n])})

KeyOfLine(l) ==
    LET s == strip(l)
    IN  strip(SubSeq(s, 1, Min({q \in 1..Len(s) : s[q] = "="}) - 1))

ValueOfLine(l) ==
    LET s == strip(l)
    IN  strip(SubSeq(s, Min({q \in 1..Len(s) : s[q] = "="}) + 1, Len(s)))

\* The fields of the block that starts at line `from` and ends before line
\* `to`, in source order, each with its place: the header's own fields
\* first, then the key = value lines
FieldsBetween(lines, from, to) ==
    LET hdr == PDP_CONTEXT_HEADER_RE(strip(lines[from]))[2]
        at  == Sorted({n \in (from + 1)..(to - 1) : "=" \in Range(lines[n])})
    IN  [g \in 1..Len(HeaderGroups) |-> [k |-> <<HeaderGroups[g]>>, v |-> hdr[g]]]
        \o [m \in 1..Len(at) |-> [k |-> KeyOfLine(lines[at[m]]),
                                  v |-> ValueOfLine(lines[at[m]])]]

\* The fields of each block of a response, block by block
BlocksOf(lines) ==
    LET hs   == HeaderAt(lines)
        stop == StopLine(lines)
    IN  [j \in 1..Len(hs) |->
            FieldsBetween(lines, hs[j], IF j < Len(hs) THEN hs[j + 1] ELSE stop)]

\* The values of a field name among the fields of a block, in source order
OccurrencesOf(fields, key) ==
    LET at == Sorted({m \in 1..Len(fields) : fields[m].k = key})
    IN  [m \in 1..Len(at) |-> fields[at[m]].v]

\* Where a field name first occurs among the fields of a block
FirstOccurrence(fields, key) == Min({m \in 1..Len(fields) : fields[m].k = key})

\* The number of values a record holds
RECURSIVE ValueCount(_)
ValueCount(rec) ==
    IF rec = <<>> THEN 0
    ELSE (IF IsList(rec[1].v) THEN Len(rec[1].v.list) ELSE 1) + ValueCount(Tail(rec))

\* The PDP parser was given a response whose result code is zero
PdpSucceeded(lines) ==
    /\ Ran /\ parser = "pdp"
    /\ SixthLineHasCode(lines) /\ CodeOfLine(lines[RETCODE_LINE + 1]) = 0

\* C6: a response without any result-code line, the empty response and a
\* response cut by a read timeout included, makes parse return no result code
\* and no records, and never raise.
C6_NoRetcodeNeverRaises ==
    (Ran /\ RetcodeLines(splitlines(text)) = {}) =>
        (~Raised(parsed) /\ parsed.ret \in {None, [list |-> <<>>], [dict |-> <<>>]})

\* C7 as stated: a response whose result code is non-zero makes parse return
\* that code with its message and an empty record list.
C7_NonZeroReturnsCode ==
    LET lines == splitlines(text)
    IN  (Ran /\ SixthLineFails(lines)) =>
            parsed = Return([code |-> CodeOfLine(lines[RETCODE_LINE + 1]),
                             message |-> extract_retcode(lines[RETCODE_LINE + 1]).ret.message,
                             records |-> <<>>])

\* C7 amended: a response whose result-code line holds a non-zero code makes
\* parse return None: no code, no message and no record, whatever follows.
C7_NonZeroReturnsNone ==
    (Ran /\ SixthLineFails(splitlines(text))) => parsed = Return(None)

\* A failed response followed by a header and a key = value line was parsed
C7_Witness ==
    LET lines == splitlines(text)
    IN  /\ Ran /\ SixthLineFails(lines)
        /\ \E n \in (RETCODE_LINE + 2)..Len(lines) :
              /\ IsHeaderLine(lines[n])
              /\ \E m \in (n + 1)..Len(lines) : "=" \in Range(lines[m])
        /\ parsed = Return(None)

\* C8 as stated: the first line of the response that holds a result code
\* decides, on whichever line it is: parse reports a failure exactly when
\* that code is non-zero.
C8_FirstRetcodeLineDecides ==
    LET lines == splitlines(text)
        found == RetcodeLines(lines)
    IN  (Ran /\ found # {}) =>
            ((CodeOfLine(lines[Min(found)]) # 0) <=> (parsed = Return(None)))

\* C8 amended: the result code is read from the line at index RETCODE_LINE
\* alone.  A response that ends before that line raises IndexError, one
\* whose line there holds no result code raises AttributeError, and
\* otherwise parse reports a failure exactly when the first code on that
\* line is non-zero; result codes on other lines are not looked at.
C8_SixthLineDecides ==
    LET lines == splitlines(text)
    IN  Ran =>
            IF Len(lines) <= RETCODE_LINE THEN parsed = Raise("IndexError")
            ELSE IF ~SixthLineHasCode(lines) THEN parsed = Raise("AttributeError")
            ELSE (CodeOfLine(lines[RETCODE_LINE + 1]) # 0) <=> (parsed = Return(None))

\* A response was parsed whose first result code is not on the line at
\* RETCODE_LINE and differs from the one there
C8_Witness ==
    LET lines == splitlines(text)
        found == RetcodeLines(lines)
    IN  /\ Ran /\ SixthLineHasCode(lines)
        /\ Min(found) # RETCODE_LINE + 1
        /\ CodeOfLine(lines[Min(found)]) # 0
        /\ CodeOfLine(lines[RETCODE_LINE + 1]) = 0
        /\ parsed # Return(None)

\* C9: a successful response with N header-delimited blocks before the result
\* count yields exactly N records: the open one is stored, each key = value
\* line of a block goes to that block's record and to no other, lines before
\* the first header and lines from the result count on go nowhere; and when
\* parse returns, it returns N records.
C9_ExactlyNRecords ==
    LET lines  == splitlines(text)
        blocks == BlocksOf(lines)
        recs   == ScannedContexts(lines)
    IN  PdpSucceeded(lines) =>
            /\ Len(recs) = Len(blocks)
            /\ \A j \in 1..Len(recs) :
                  LET rec    == recs[j]
                      fields == blocks[j]
                  IN  /\ ValueCount(rec) = Len(fields)
                      /\ \A m \in 1..Len(fields) :
                            /\ HasKey(rec, fields[m].k)
                            /\ LET v == Get(rec, fields[m].k)
                               IN  IF IsList(v)
                                   THEN Str(fields[m].v) \in Range(v.list)
                                   ELSE v = Str(fields[m].v)
            /\ ~Raised(parsed) =>
                  /\ IsList(parsed.ret)
                  /\ Len(parsed.ret.list) = Len(blocks)

\* Two complete blocks, followed by a result count and by a header and a
\* key = value line after it, were parsed into two records
C9_Witness ==
    LET lines == splitlines(text)
        stop  == StopLine(lines)
    IN  /\ PdpSucceeded(lines) /\ ~Raised(parsed)
        /\ Len(HeaderAt(lines)) = 2 /\ Len(parsed.ret.list) = 2
        /\ \E n \in (stop + 1)..Len(lines) : IsHeaderLine(lines[n])
        /\ \E n \in (stop + 1)..Len(lines) : "=" \in Range(lines[n])

\* C10: in a record, a field name that occurs k times in its block has the
\* list of its k values in source order, a name that occurs once has that one
\* value as a scalar, and the record's fields are in the order of their first
\* occurrence.
C10_DuplicatesInOrder ==
    LET lines  == splitlines(text)
        blocks == BlocksOf(lines)
        recs   == ScannedContexts(lines)
    IN  PdpSucceeded(lines) =>
            /\ Len(recs) = Len(blocks)
            /\ \A j \in 1..Len(recs) :
                  LET rec    == recs[j]
                      fields == blocks[j]
                  IN  /\ \A m \in 1..Len(fields) : HasKey(rec, fields[m].k)
                      /\ \A e \in 1..Len(rec) :
                            LET occ == OccurrencesOf(fields, rec[e].k)
                            IN  /\ Len(occ) >= 1
                                /\ rec[e].v =
                                       IF Len(occ) = 1 THEN Str(occ[1])
                                       ELSE [list |-> [m \in 1..Len(occ) |-> Str(occ[m])]]
                                /\ \A f \in 1..(e - 1) :
                                      /\ rec[f].k # rec[e].k
                                      /\ FirstOccurrence(fields, rec[f].k)
                                           < FirstOccurrence(fields, rec[e].k)

\* A field that occurs three times in its block, with values a, b, a, and a
\* field that occurs once, were parsed and returned
C10_Witness ==
    /\ Ran /\ parser = "pdp" /\ ~Raised(parsed) /\ IsList(parsed.ret)
    /\ \E j \in 1..Len(parsed.ret.list) :
          LET rec == parsed.ret.list[j].dict
          IN  /\ HasKey(rec, <<"apn">>)
              /\ Get(rec, <<"apn">>) =
                     [list |-> <<Str(<<"a">>), Str(<<"b">>), Str(<<"a">>)>>]
              /\ HasKey(rec, <<"bearer", "_", "type">>)
              /\ Get(rec, <<"bearer", "_", "type">>) = Str(<<"a">>)

\* The key = value lines after the result-code line and before the result
\* count, in order
FlatAt(lines) ==
    Sorted({n \in (RETCODE_LINE + 2)..(StopLine(lines) - 1) : "=" \in Range(lines[n])})

\* The MM parser was given a response whose result code is zero
MmSucceeded(lines) ==
    /\ Ran /\ parser = "mm"
    /\ SixthLineHasCode(lines) /\ CodeOfLine(lines[RETCODE_LINE + 1]) = 0

\* C11: for the flat format, parse collects exactly the key = value lines
\* between the result-code line and the result count into one mapping; a
\* line of that range without "=" is ignored and does not make parse fail.
C11_FlatCollectsUpToMarker ==
    MmSucceeded(splitlines(text)) =>
        /\ ~Raised(parsed)
        /\ parsed.ret # None
        /\ LET lines == splitlines(text)
                at    == FlatAt(lines)
                out   == parsed.ret.dict
           IN  /\ {out[n].k : n \in 1..Len(out)}
                      = {KeyOfLine(lines[at[m]]) : m \in 1..Len(at)}
               /\ \A n \in 1..Len(out) : \E m \in 1..Len(at) :
                      /\ out[n].k = KeyOfLine(lines[at[m]])
                      /\ out[n].v = Str(ValueOfLine(lines[at[m]]))

-----------------------------------------------------------------------------
(* Properties of the result of a dispatch *)

Returned == pc = "done" /\ outcome = "returned"

\* The result mapping has one entry per endpoint, under '<name> (<ip>)', in
\* the order of ne_dict
OneEntryPerEndpoint ==
    /\ Len(response_dict) = Len(ne_dict)
    /\ \A n \in 1..Len(ne_dict) :
          response_dict[n].k
              = ne_dict[n].name \o <<" ", "(">> \o ne_dict[n].ip \o <<")">>

\* A mapping that holds a result code, a count and a list of records, under
\* whatever names
IsCodeCountRecords(v) ==
    /\ DOMAIN v = {"dict"}
    /\ \E c, n, r \in 1..Len(v.dict) :
          /\ c # n /\ c # r /\ n # r
          /\ DOMAIN v.dict[c].v = {"int"}
          /\ DOMAIN v.dict[n].v = {"int"}
          /\ IsList(v.dict[r].v)

\* C12, as stated: a dispatch that completes returns one entry per endpoint,
\* under the endpoint's label, in input order, each entry a payload of result
\* code, count and enriched records, or a failure indicator.
C12_EntriesCarryCodeAndCount ==
    Returned =>
        /\ OneEntryPerEndpoint
        /\ \A n \in 1..Len(response_dict) :
              \/ response_dict[n].v = None
              \/ IsCodeCountRecords(response_dict[n].v)

\* C12, as the code has it: a dispatch that completes returns one entry per
\* endpoint, under the label '<name> (<ip>)', in input order; each entry is
\* what the parser returned: the list of enriched records (PDP), the flat
\* mapping (MM), or None.  No entry holds a result code or a count.
C12_OneEntryPerEndpoint ==
    Returned =>
        /\ OneEntryPerEndpoint
        /\ \A n \in 1..Len(response_dict) :
              \/ response_dict[n].v = None
              \/ parser = "pdp" /\ IsList(response_dict[n].v)
                    /\ \A m \in 1..Len(response_dict[n].v.list) :
                          DOMAIN response_dict[n].v.list[m] = {"dict"}
              \/ parser = "mm" /\ DOMAIN response_dict[n].v = {"dict"}
                    /\ \A m \in 1..Len(response_dict[n].v.dict) :
                          IsStr(response_dict[n].v.dict[m].v)

\* A dispatch over several endpoints returned, one endpoint without data and
\* one with records
C12_Witness ==
    /\ Returned
    /\ Len(ne_dict) >= 2
    /\ \E n, m \in 1..Len(response_dict) :
          /\ response_dict[n].v = None
          /\ IsList(response_dict[m].v) /\ response_dict[m].v.list # <<>>

-----------------------------------------------------------------------------
(* Properties of the enrichment.  A complete block has every field the     *)
(* enrichment pops, as often as the UGW prints it.                         *)

\* How often the n-th field's name occurs among the fields of a complete
\* context
TimesPrinted(n) ==
    Cardinality({m \in 1..Len(FullFields) : FullFields[m][1] = FullFields[n][1]})

\* The block has every field of a complete context as often as it is
\* printed, and the fields other than the first location record and the IMEI
\* have the values of FullFields
IsCompleteBlock(fields) ==
    /\ \A n \in 1..Len(FullFields) :
          LET occ == OccurrencesOf(fields, <<FullFields[n][1]>>)
          IN  /\ Len(occ) = TimesPrinted(n)
              /\ n \notin {3, 5} => occ[Len(occ)] = FullFields[n][2]

\* The record the parser returns for the complete context of FullFields
ReferenceRecord ==
    pdp_query_parser(Join(SuccessHead \o <<HeaderLine(<<"UGW1">>, "1")>>
                          \o FullLines)).ret.list[1].dict

\* No row of the operator table has the pair (mcc, mnc)
NoOperatorRow(mcc, mnc) ==
    \A n \in 1..Len(mnc_mcc_df) : ~(mnc_mcc_df[n].MCC = mcc /\ mnc_mcc_df[n].MNC = mnc)

\* No row of the cell table has the cell and the site of the cell identity
NoCellRow(eci) ==
    \A n \in 1..Len(ran_df) :
        ~(/\ ran_df[n].cellId = eci % 256
          /\ endswith(ran_df[n].SiteName,
                      <<"_">> \o IntToDigits((eci \div 256) \div 10)))

\* No row of the handset table has the first eight digits of the IMEI
NoHandsetRow(imei) ==
    \A n \in 1..Len(tac_df) : tac_df[n].tac # SubSeq(imei, 1, 8)

\* The keys of reformat whose values hold no table row
OtherKeys ==
    {<<"bearer_id">>, <<"default_bearer">>, <<"qos">>, <<"requested_qos">>,
     <<"apn_ambr_(kbps)">>, <<"charging">>, <<"metadata">>, <<"overview">>}

\* C13: a lookup that finds no row (operator, cell, handset) leaves None in
\* its place and does not raise; every other part of the record is what it
\* is when the lookup finds a row.
C13_LookupMissYieldsNull ==
    LET lines  == splitlines(text)
        blocks == BlocksOf(lines)
    IN  (PdpSucceeded(lines) /\ \A j \in 1..Len(blocks) : IsCompleteBlock(blocks[j])) =>
            /\ ~Raised(parsed)
            /\ Len(parsed.ret.list) = Len(blocks)
            /\ \A j \in 1..Len(blocks) :
                  LET rec  == parsed.ret.list[j].dict
                      loc  == Get(rec, <<"location">>).dict
                      ecgi == Get(loc, <<"ecgi">>).dict
                      tai  == Get(loc, <<"tai">>).dict
                      imei == Get(rec, <<"imei">>).dict
                      ref  == Get(ReferenceRecord, <<"location">>).dict
                  IN  /\ (Get(ecgi, <<"operator_info">>) = None)
                             = NoOperatorRow(Get(ecgi, <<"mcc">>).int,
                                             Get(ecgi, <<"mnc">>).int)
                      /\ (Get(tai, <<"operator_info">>) = None)
                             = NoOperatorRow(Get(tai, <<"mcc">>).int,
                                             Get(tai, <<"mnc">>).int)
                      /\ (Get(ecgi, <<"ran_info">>) = None)
                             = NoCellRow(Get(ecgi, <<"eci">>).int)
                      /\ (Get(imei, <<"handset_info">>) = None)
                             = NoHandsetRow(OccurrencesOf(blocks[j], <<"IMEI">>)[1])
                      /\ [n \in 1..Len(ecgi) |-> ecgi[n].k]
                             = <<<<"mcc">>, <<"mnc">>, <<"eci">>,
                                 <<"operator_info">>, <<"ran_info">>>>
                      /\ [n \in 1..Len(imei) |-> imei[n].k]
                             = <<<<"imei">>, <<"handset_info">>>>
                      /\ tai = Get(ref, <<"tai">>).dict
                      /\ \A key \in OtherKeys :
                            /\ HasKey(rec, key)
                            /\ Get(rec, key) = Get(ReferenceRecord, key)

\* A complete context whose operator, cell and handset have no row was
\* parsed: the three references are None, and the operator of its tracking
\* area, which has a row, is there
C13_Witness ==
    /\ Ran /\ parser = "pdp" /\ ~Raised(parsed) /\ IsList(parsed.ret)
    /\ \E j \in 1..Len(parsed.ret.list) :
          LET rec == parsed.ret.list[j].dict
              loc == Get(rec, <<"location">>).dict
          IN  /\ Get(Get(loc, <<"ecgi">>).dict, <<"operator_info">>) = None
              /\ Get(Get(loc, <<"ecgi">>).dict, <<"ran_info">>) = None
              /\ Get(Get(rec, <<"imei">>).dict, <<"handset_info">>) = None
              /\ Get(Get(loc, <<"tai">>).dict, <<"operator_info">>) # None
              /\ HasKey(rec, <<"charging">>)

\* C14: for every cell identity v >= 0, site = v >> 8 and cell = v & 0xFF
\* are the quotient and the remainder of v by 256 (so 320276 gives site 1251
\* and cell 20), and the cell lookup selects the first row of the cell table
\* with that cell and a site name that ends with "_" and site // 10.
C14_CellDecodeBitExact ==
    (parser = "location" /\ Ran) =>
        LET v    == IntOfDigits(text)
            rows == {n \in 1..Len(ran_df) :
                        /\ ran_df[n].cellId = v % 256
                        /\ endswith(ran_df[n].SiteName,
                                    <<"_">> \o IntToDigits((v \div 256) \div 10))}
        IN  /\ site_id(v) = v \div 256
            /\ cell_id(v) = v % 256
            /\ v = site_id(v) * 256 + cell_id(v)
            /\ cell_id(v) \in 0..255
            /\ site_id(320276) = 1251 /\ cell_id(320276) = 20
            /\ ~Raised(parsed)
            /\ Get(Get(parsed.ret.val.dict, <<"ecgi">>).dict, K("eci")) = IntV(v)
            /\ Get(Get(parsed.ret.val.dict, <<"ecgi">>).dict, K("ran_info"))
                   = IF rows = {} THEN None ELSE [row |-> ran_df[Min(rows)]]

\* The location with the cell identity 320276 was parsed, and the cell 20 of
\* the site named ..._125 was found
C14_Witness ==
    /\ parser = "location" /\ Ran /\ ~Raised(parsed)
    /\ text = <<"3", "2", "0", "2", "7", "6">>
    /\ Get(Get(parsed.ret.val.dict, <<"ecgi">>).dict, K("ran_info"))
           = [row |-> ran_df[1]]

\* The base-16 value of a field "0x...." of a block
HexField(fields, key) ==
    LET v == OccurrencesOf(fields, <<key>>)[1]
    IN  IntV(IntOfHex(SubSeq(v, 3, Len(v))))

\* C15, as stated: the requested characteristic of the output is the base-16
\* value of the field Requested Charging Characteristic and the negotiated
\* one is the base-16 value of the field Negotiated Charging Characteristic,
\* also when the two fields differ.
C15_EachCharacteristicFromItsField ==
    LET lines  == splitlines(text)
        blocks == BlocksOf(lines)
    IN  (PdpSucceeded(lines) /\ ~Raised(parsed)) =>
            \A j \in 1..Len(parsed.ret.list) :
                LET charging == Get(parsed.ret.list[j].dict, <<"charging">>).dict
                IN  /\ Get(charging, <<"requested_charging_characteristic">>)
                         = HexField(blocks[j], "Requested Charging Characteristic")
                    /\ Get(charging, <<"negotiated_charging_characteristic">>)
                         = HexField(blocks[j], "Negotiated Charging Characteristic")

\* The names of the fields the enrichment pops: those of a complete context
\* and those captured from the header
ConsumedKeys ==
    {<<FullFields[n][1]>> : n \in 1..Len(FullFields)}
    \cup {<<HeaderGroups[g]>> : g \in 1..Len(HeaderGroups)}

\* key.lower().replace(" ", "_")
NormKey(key) == [m \in 1..Len(key) |-> NormSymbol(key[m])]

\* The value the scan gives a field name of a block: the one value, or the
\* list of the values in source order
ScannedValue(fields, key) ==
    LET occ == OccurrencesOf(fields, key)
    IN  IF Len(occ) = 1 THEN Str(occ[1])
        ELSE [list |-> [m \in 1..Len(occ) |-> Str(occ[m])]]

\* C16, as stated: every field of a context that no enrichment rule consumes
\* is in the enriched record under its normalized key, with its original
\* value; none is dropped, merged with another or overwritten by a key the
\* enrichment adds.
C16_UnconsumedFieldsKept ==
    LET lines  == splitlines(text)
        blocks == BlocksOf(lines)
    IN  (PdpSucceeded(lines) /\ ~Raised(parsed)) =>
            \A j \in 1..Len(parsed.ret.list) :
                \A m \in 1..Len(blocks[j]) :
                    blocks[j][m].k \notin ConsumedKeys =>
                        /\ HasKey(parsed.ret.list[j].dict, NormKey(blocks[j][m].k))
                        /\ Get(parsed.ret.list[j].dict, NormKey(blocks[j][m].k))
                               = ScannedValue(blocks[j], blocks[j][m].k)

\* C17, as stated: the fields captured from the context header (the node and
\* each index) are under the metadata key of the record with their names and
\* values unchanged, and are no longer at the top level of the record.
C17_HeaderFieldsUnderMetadata ==
    LET lines  == splitlines(text)
        blocks == BlocksOf(lines)
    IN  (PdpSucceeded(lines) /\ ~Raised(parsed)) =>
            \A j \in 1..Len(parsed.ret.list) :
                LET rec      == parsed.ret.list[j].dict
                    metadata == Get(rec, <<"metadata">>).dict
                IN  \A g \in 1..Len(HeaderGroups) :
                        /\ HasKey(metadata, <<HeaderGroups[g]>>)
                        /\ Get(metadata, <<HeaderGroups[g]>>) = Str(blocks[j][g].v)
                        /\ ~HasKey(rec, <<HeaderGroups[g]>>)

-----------------------------------------------------------------------------
(* Properties of the order of the commands of a session *)

IsLogin(n) == sent[n].cmd = LoginCommand(Username, Password) \o <<NL>>

IsRegNe(n, ip) == sent[n].cmd = RegNeCommand(ip) \o <<NL>>

IsRegVnfc(n) == sent[n].cmd = RegVnfcCommand(Vnfc(parser)) \o <<NL>>

IsQuery(n) == sent[n].cmd = query \o <<NL>>

\* The session is about to send a command
AboutToSend == pc \in {"login", "reg_ne", "reg_vnfc", "query"}

\* C18: the login command is the first command of a session and is sent
\* once; a query is sent for an endpoint only after the register-element
\* command with that endpoint's address and then the register-role command;
\* a command is sent only when the response of every earlier command has
\* been read.
C18_CommandOrder ==
    /\ \A n \in 1..Len(sent) :
          /\ IsLogin(n) <=> n = 1
          /\ IsQuery(n) =>
                /\ n >= 3
                /\ sent[n].ne \in 1..Len(ne_dict)
                /\ IsRegVnfc(n - 1) /\ sent[n - 1].ne = sent[n].ne
                /\ IsRegNe(n - 2, ne_dict[sent[n].ne].ip)
                /\ sent[n - 2].ne = sent[n].ne
          /\ (IsRegVnfc(n) \/ \E e \in 1..Len(ne_dict) : IsRegNe(n, ne_dict[e].ip))
                => n >= 2
    /\ AboutToSend => reads = Len(sent)
    /\ reads \in {Len(sent) - 1, Len(sent)} \cap Nat

\* The queries of two endpoints were sent in one session, each after its two
\* registrations, and every response was read
C18_Witness ==
    /\ Len(sent) = 7 /\ reads = 7
    /\ IsLogin(1)
    /\ IsRegNe(2, ne_dict[1].ip) /\ IsRegVnfc(3) /\ IsQuery(4)
    /\ IsRegNe(5, ne_dict[2].ip) /\ IsRegVnfc(6) /\ IsQuery(7)

-----------------------------------------------------------------------------
(* Properties of a dispatch whose endpoints answer with a failure *)

\* The response of a query has been read and given to the parser in this step
QueryAnswered == pc = "query" /\ reads' = reads + 1

\* A response with a result code that is not zero, or with no result code
IsResultFailure(t) ==
    \/ SixthLineFails(splitlines(t))
    \/ RetcodeLines(splitlines(t)) = {}

\* C19, as stated: when the response of an endpoint carries a result code
\* that is not zero, or none, no exception is raised, the endpoint gets a
\* no-data entry in the result mapping and the dispatch goes on to the next
\* endpoint.
C19_ResultFailureIsNoData ==
    [][(QueryAnswered /\ IsResultFailure(text')) =>
          /\ ~Raised(parsed')
          /\ err' = NoError
          /\ Len(response_dict') = idx
          /\ response_dict'[idx] = [k |-> Label(ne_dict[idx]), v |-> None]
          /\ pc' = NextEndpoint(idx)]_vars

\* A successful PDP response with a context in which a field the enrichment
\* pops does not occur
HasIncompleteContext(t) ==
    LET lines  == splitlines(t)
        blocks == BlocksOf(lines)
    IN  /\ SixthLineHasCode(lines) /\ CodeOfLine(lines[RETCODE_LINE + 1]) = 0
        /\ \E j \in 1..Len(blocks) : \E n \in 1..Len(FullFields) :
              OccurrencesOf(blocks[j], <<FullFields[n][1]>>) = <<>>

KeyError == [type |-> "KeyError"]

\* C20: a context that lacks a field the enrichment pops is fatal to the
\* whole query: the KeyError leaves the parser and the dispatch, no record of
\* that response and no entry for that endpoint is stored, no further
\* endpoint is queried, and the caller gets the exception, not the mapping
\* with the results of the earlier endpoints.
C20_MissingFieldAbortsQuery ==
    [][/\ (QueryAnswered /\ parser = "pdp" /\ HasIncompleteContext(text')) =>
              /\ parsed' = Raise("KeyError")
              /\ err' = KeyError
              /\ pc' = "exit"
              /\ response_dict' = response_dict
       /\ err = KeyError =>
              /\ sent' = sent /\ reads' = reads
              /\ response_dict' = response_dict
              /\ err' = err
              /\ outcome' = "raised"]_vars

\* The second of three endpoints answered with three contexts, the second of
\* them without its last field; the first endpoint's result was stored, the
\* third endpoint was not queried and the caller got the KeyError
C20_Witness ==
    /\ pc = "done" /\ outcome = "raised" /\ err = KeyError
    /\ parser = "pdp" /\ HasIncompleteContext(text)
    /\ Len(HeaderAt(splitlines(text))) = 3
    /\ Len(ne_dict) = 3 /\ idx = 2
    /\ Len(response_dict) = 1
    /\ \A n \in 1..Len(sent) : sent[n].ne <= 2

-----------------------------------------------------------------------------
(* Properties of the preemption flags *)

\* The flag an affirmative token stands for: true for "Yes", false otherwise
FlagField(fields, key) ==
    BoolV(OccurrencesOf(fields, <<key>>)[1] = <<"Yes">>)

\* C21: the preemption capability and vulnerability of the negotiated and of
\* the requested QoS are booleans derived from their source tokens: true for
\* an affirmative token ("Yes"), false for a non-affirmative one ("No").
C21_PreemptionFlagsFollowToken ==
    LET lines  == splitlines(text)
        blocks == BlocksOf(lines)
    IN  (PdpSucceeded(lines) /\ ~Raised(parsed)) =>
            \A j \in 1..Len(parsed.ret.list) :
                LET rec       == parsed.ret.list[j].dict
                    fields    == blocks[j]
                    arp       == Get(Get(rec, <<"qos">>).dict, <<"arp">>).dict
                    requested == Get(Get(rec, <<"requested_qos">>).dict, <<"arp">>).dict
                IN  /\ Get(arp, <<"preemption_capability">>)
                         = FlagField(fields, "Allocation/Retention PRI PCI")
                    /\ Get(arp, <<"preemption_vulnerability">>)
                         = FlagField(fields, "Allocation/Retention PRI PVI")
                    /\ Get(requested, <<"preemption_capability">>)
                         = FlagField(fields, "Request Allocation/Retention PRI PCI")
                    /\ Get(requested, <<"preemption_vulnerability">>)
                         = FlagField(fields, "Request Allocation/Retention PRI PVI")

====
